---- MODULE Spec2Model ----
(***************************************************************************)
(* Model of the Sankey flow-graph engine of rs-vis                         *)
(* (app/lib/sankey-generator: generateSankeyData, selectData,              *)
(* buildSankeyData; the current version is src/unnamed/part_001:937-2856). *)
(*                                                                         *)
(* Amounts are fixed-point numbers in thousandths of a yen: the record     *)
(* store holds whole yen (multiples of 1000 here) and the engine's dummy   *)
(* value 0.001 is the integer 1.  The engine only adds, subtracts and      *)
(* compares amounts, so this representation is exact.                      *)
(*                                                                         *)
(* A JS Map is a sequence of <<key, value>> pairs in insertion order; a JS *)
(* array is a sequence; node ids are the strings the code builds.          *)
(***************************************************************************)
EXTENDS Integers, Sequences, FiniteSets, TLC

VARIABLES
  file,         \* public/data/rs2024-structured.json: the record store on disk
  fileOK,       \* whether that file can be read and parsed
  cachedData,   \* module variable cachedData: <<>> (null) or <<the record store>>
  resultCache,  \* module variable resultCache: <<key, envelope>> in insertion order
  last,         \* what the most recent call of generateSankeyData did and returned
  hist,         \* for each key served so far, the first graph returned for it
  asked,        \* the options object the most recent call was given
  nreq          \* number of calls of generateSankeyData since the initial state

vars == <<file, fileOK, cachedData, resultCache, last, hist, asked, nreq>>

-----------------------------------------------------------------------------
(* Array and Map helpers (JavaScript semantics)                            *)

Min(a, b) == IF a < b THEN a ELSE b

RECURSIVE SumSeq(_)
SumSeq(s) == IF s = <<>> THEN 0 ELSE Head(s) + SumSeq(Tail(s))

RECURSIVE FoldSeq(_, _, _)
FoldSeq(Op(_, _), acc, s) ==
  IF s = <<>> THEN acc
  ELSE IF Len(s) = 1 THEN Op(acc, s[1])
  ELSE LET h == Len(s) \div 2
       IN CHOOSE r \in {FoldSeq(Op, x, SubSeq(s, h + 1, Len(s))) :
                          x \in {FoldSeq(Op, acc, SubSeq(s, 1, h))}} : TRUE

MapSeq(s, F(_)) == [i \in 1..Len(s) |-> F(s[i])]

RECURSIVE Flatten(_)
Flatten(ss) == IF ss = <<>> THEN <<>> ELSE Head(ss) \o Flatten(Tail(ss))

SeqToSet(s) == {s[i] : i \in 1..Len(s)}

\* slice(a, b), variant that drops nothing
SliceWhole(s, a, b) == s

\* Array.prototype.slice(a, b): elements at 0-based positions a .. b-1
Slice(s, a, b) ==
  LET lo == Min(a, Len(s))
      hi == Min(b, Len(s))
  IN IF hi <= lo THEN <<>> ELSE SubSeq(s, lo + 1, hi)

\* slice(a), variant that drops nothing
SliceFromStart(s, a) == s

\* Array.prototype.slice(a): a negative a counts from the end
SliceFrom(s, a) ==
  IF a < 0
  THEN Slice(s, IF Len(s) + a < 0 THEN 0 ELSE Len(s) + a, Len(s))
  ELSE Slice(s, a, Len(s))

\* Array.prototype.sort((a, b) => K(b) - K(a)): descending by K, unstable
\* variant that puts later equal elements first
SortDescByReversedTies(s, K(_)) ==
  LET n == Len(s)
      rank(i) == Cardinality({j \in 1..n : K(s[j]) > K(s[i])
                                \/ (K(s[j]) = K(s[i]) /\ j > i)}) + 1
  IN [p \in 1..n |-> s[CHOOSE i \in 1..n : rank(i) = p]]

\* Array.prototype.sort((a, b) => K(b) - K(a)): descending by K, stable
SortDescBy(s, K(_)) ==
  LET n == Len(s)
      rank(i) == Cardinality({j \in 1..n : K(s[j]) > K(s[i])
                                \/ (K(s[j]) = K(s[i]) /\ j < i)}) + 1
  IN [p \in 1..n |-> s[CHOOSE i \in 1..n : rank(i) = p]]

MapHas(m, k) == \E i \in 1..Len(m) : m[i][1] = k

\* m.get(k) || 0
MapGet(m, k) ==
  IF MapHas(m, k) THEN m[CHOOSE i \in 1..Len(m) : m[i][1] = k][2] ELSE 0

\* m.set(k, v): an existing key keeps its position
MapSet(m, k, v) ==
  IF MapHas(m, k)
  THEN [i \in 1..Len(m) |-> IF m[i][1] = k THEN <<k, v>> ELSE m[i]]
  ELSE Append(m, <<k, v>>)

\* the values of a Map, variant that skips the first entry
MapValuesButFirst(m) == MapSeq(SubSeq(m, 2, Len(m)), LAMBDA e : e[2])

\* the values of a Map in insertion order
MapValues(m) == MapSeq(m, LAMBDA e : e[2])

\* Array.prototype.find over a spending record's projects; the amount, or 0
\* when the project is absent (callers test HasProject first where it matters)
HasProject(spending, projectId) ==
  \E i \in 1..Len(spending.projects) : spending.projects[i].projectId = projectId

AmountFrom(spending, projectId) ==
  IF HasProject(spending, projectId)
  THEN spending.projects[CHOOSE i \in 1..Len(spending.projects) :
         /\ spending.projects[i].projectId = projectId
         /\ \A j \in 1..(i - 1) : spending.projects[j].projectId # projectId].amount
  ELSE 0

-----------------------------------------------------------------------------
(* The record store, as scripts/generate-structured-json.ts writes it      *)

Yen(n) == n * 1000

\* the reserved recipient name (the source's literal is the Japanese word
\* for "other"; SANY accepts only ASCII strings)
SONOTA == "sonota"

\* one spending record from its rows: projects sorted by amount descending
MakeSpending(row) ==
  [spendingId |-> row.spendingId,
   spendingName |-> row.spendingName,
   projects |-> SortDescBy(row.projects, LAMBDA p : p.amount)]

\* linkBudgetAndSpending: spendingIds in spending-id order, totalSpendingAmount
\* summed from the spending records
MakeBudget(row, spendRows) ==
  LET mine == SelectSeq(spendRows, LAMBDA s : HasProject(s, row.projectId))
  IN [projectId |-> row.projectId,
      projectName |-> row.projectName,
      ministry |-> row.ministry,
      totalBudget |-> row.totalBudget,
      spendingIds |-> MapSeq(mine, LAMBDA s : s.spendingId),
      totalSpendingAmount |-> SumSeq(MapSeq(mine, LAMBDA s : AmountFrom(s, row.projectId)))]

\* buildBudgetTree: a ministry's totalBudget is the sum of its projects' budgets
MakeMinistry(row, projRows) ==
  [id |-> row.id,
   name |-> row.name,
   bureauCount |-> row.bureauCount,
   totalBudget |-> SumSeq(MapSeq(SelectSeq(projRows, LAMBDA p : p.ministry = row.name),
                                 LAMBDA p : p.totalBudget))]

\* ministries in first-appearance order, budgets by projectId, spendings by
\* total amount descending, statistics.byMinistry[name].totalSpending
MakeData(minRows, projRows, spendRows) ==
  LET budgets == MapSeq(projRows, LAMBDA r : MakeBudget(r, spendRows))
  IN [ministries |-> MapSeq(minRows, LAMBDA r : MakeMinistry(r, projRows)),
      budgets |-> budgets,
      spendings |-> SortDescBy(MapSeq(spendRows, MakeSpending),
                      LAMBDA s : SumSeq(MapSeq(s.projects, LAMBDA p : p.amount))),
      byMinistry |-> [n \in {budgets[i].ministry : i \in 1..Len(budgets)} |->
                        SumSeq(MapSeq(SelectSeq(budgets, LAMBDA b : b.ministry = n),
                                      LAMBDA b : b.totalSpendingAmount))],
      totalBudgetAmount |-> SumSeq(MapSeq(budgets, LAMBDA b : b.totalBudget))]


-----------------------------------------------------------------------------
(* selectData                                                              *)

EmptySelection ==
  [topMinistries |-> <<>>,
   otherMinistriesBudget |-> 0,
   otherMinistriesSpending |-> 0,
   topProjects |-> <<>>,
   otherProjectsBudgetByMinistry |-> <<>>,
   otherProjectsSpendingByMinistry |-> <<>>,
   topSpendings |-> <<>>,
   otherSpendingsByProject |-> <<>>,
   otherNamedSpendingByProject |-> <<>>,
   otherProjectsSpendingInSpendingView |-> 0,
   otherProjectsSpendingByMinistryInSpendingView |-> <<>>,
   otherMinistriesSpendingInSpendingView |-> 0,
   hasMoreProjects |-> FALSE,
   ministryTotalProjects |-> 0]

\* the { name, id, totalBudget, bureauCount } objects of topMinistries
TopMinistryOf(m) ==
  [name |-> m.name, id |-> m.id, totalBudget |-> m.totalBudget,
   bureauCount |-> m.bureauCount]

\* add into a Map of totals, variant that overwrites the total
MapAddOverwrite(m, k, v) == MapSet(m, k, v)

\* stable add into a Map of totals
MapAdd(m, k, v) == MapSet(m, k, MapGet(m, k) + v)

\* --- Spending View (reverse flow): targetRecipientName is set
SelectSpendingView(data, o) ==
  LET recipientSpendings ==
        SelectSeq(data.spendings, LAMBDA s : s.spendingName = o.targetRecipientName)
  IN IF Len(recipientSpendings) = 0
     THEN EmptySelection
     ELSE
       LET amountByProject ==
             FoldSeq(LAMBDA m, p : MapAdd(m, p.projectId, p.amount), <<>>,
                     Flatten(MapSeq(recipientSpendings, LAMBDA s : s.projects)))
           allContributingProjects ==
             SelectSeq(data.budgets, LAMBDA b : MapHas(amountByProject, b.projectId))
           sortedProjects ==
             SortDescBy(allContributingProjects,
                        LAMBDA b : MapGet(amountByProject, b.projectId))
           candidateTopProjects ==
             Slice(sortedProjects, o.projectOffset, o.projectOffset + o.projectLimit)
           allMinistrySpending ==
             FoldSeq(LAMBDA m, p : MapAdd(m, p.ministry, MapGet(amountByProject, p.projectId)),
                     <<>>, sortedProjects)
           sortedMinistries == SortDescBy(allMinistrySpending, LAMBDA e : e[2])
           topMinistryNames ==
             {e[1] : e \in SeqToSet(Slice(sortedMinistries, 0, o.limit))}
           \* pages before and after the current page, kept ministries only
           otherPages ==
             SelectSeq(Slice(sortedProjects, 0, o.projectOffset)
                         \o SliceFrom(sortedProjects, o.projectOffset + o.projectLimit),
                       LAMBDA p : p.ministry \in topMinistryNames)
           otherProjectsByMinistry ==
             FoldSeq(LAMBDA m, p : MapAdd(m, p.ministry, MapGet(amountByProject, p.projectId)),
                     <<>>, otherPages)
           otherProjectsAmount ==
             SumSeq(MapSeq(otherPages, LAMBDA p : MapGet(amountByProject, p.projectId)))
           nonTopMinistrySpending ==
             SumSeq(MapValues(SliceFrom(sortedMinistries, o.limit)))
       IN [EmptySelection EXCEPT
             !.topSpendings = recipientSpendings,
             !.topProjects =
                SelectSeq(candidateTopProjects, LAMBDA p : p.ministry \in topMinistryNames),
             !.otherProjectsSpendingInSpendingView =
                IF otherProjectsAmount > 0 THEN otherProjectsAmount ELSE 0,
             !.otherProjectsSpendingByMinistryInSpendingView =
                IF otherProjectsAmount > 0 THEN otherProjectsByMinistry ELSE <<>>,
             !.otherMinistriesSpendingInSpendingView =
                IF nonTopMinistrySpending > 0 THEN nonTopMinistrySpending ELSE 0,
             !.hasMoreProjects = Len(sortedProjects) > o.projectOffset + o.projectLimit,
             !.topMinistries =
                MapSeq(SelectSeq(data.ministries, LAMBDA m : m.name \in topMinistryNames),
                       TopMinistryOf)]

\* the in-place sort, variant whose ties come out in reverse store order
SortedMinistriesReversedTies(data) ==
  SortDescByReversedTies(data.ministries, LAMBDA m : m.totalBudget)

\* const allMinistries = data.budgetTree.ministries.sort(...): the sorted array
SortedMinistriesInPlace(data) ==
  SortDescBy(data.ministries, LAMBDA m : m.totalBudget)

\* sum of statistics.byMinistry[name].totalSpending over the ministries that have one
StatsSpending(data, ms) ==
  SumSeq(MapSeq(ms, LAMBDA m : IF m.name \in DOMAIN data.byMinistry
                                THEN data.byMinistry[m.name] ELSE 0))

\* Global View, step 3, variant that ranks the reserved name like any other
GlobalRecipientEligibleAll(s) == TRUE

\* Global View, step 3: if (spending.spendingName === 'sonota') continue
GlobalRecipientEligible(s) == s.spendingName # SONOTA

\* --- Global View: no target name
SelectGlobalView(data, o) ==
  LET allMinistries == SortedMinistriesInPlace(data)
      excludeCount == o.limit * o.drilldownLevel
      remainingMinistries == SliceFrom(allMinistries, excludeCount)
      topMinistries ==
        IF o.drilldownLevel > 0
        THEN MapSeq(Slice(remainingMinistries, 0, o.limit), TopMinistryOf)
        ELSE MapSeq(Slice(allMinistries, 0, o.limit), TopMinistryOf)
      otherMinistries ==
        IF o.drilldownLevel > 0
        THEN SliceFrom(remainingMinistries, o.limit)
        ELSE SliceFrom(allMinistries, o.limit)
      selectedMinistryNames == {topMinistries[i].name : i \in 1..Len(topMinistries)}
      projectsFromSelectedMinistries ==
        SelectSeq(data.budgets, LAMBDA b : b.ministry \in selectedMinistryNames)
      selectedProjectIds ==
        {projectsFromSelectedMinistries[i].projectId :
           i \in 1..Len(projectsFromSelectedMinistries)}
      totalFromSelected(s) ==
        SumSeq(MapSeq(SelectSeq(s.projects, LAMBDA p : p.projectId \in selectedProjectIds),
                      LAMBDA p : p.amount))
      inRecipientMap(s) == GlobalRecipientEligible(s) /\ totalFromSelected(s) > 0
      allRecipients ==
        SortDescBy(SelectSeq(data.spendings, inRecipientMap), totalFromSelected)
      topRecipients == Slice(allRecipients, 0, o.spendingLimit)
      topRecipientIds == {topRecipients[i].spendingId : i \in 1..Len(topRecipients)}
      spendingToTop(project) ==
        SumSeq(MapSeq(SelectSeq(data.spendings,
                         LAMBDA s : HasProject(s, project.projectId)
                                    /\ s.spendingId \in topRecipientIds),
                      LAMBDA s : AmountFrom(s, project.projectId)))
      contributingProjects ==
        Slice(SortDescBy(SelectSeq(projectsFromSelectedMinistries,
                                   LAMBDA b : spendingToTop(b) > 0),
                         spendingToTop),
              0, o.spendingLimit)
      usedBudget(m) ==
        SumSeq(MapSeq(SelectSeq(contributingProjects, LAMBDA p : p.ministry = m.name),
                      LAMBDA p : p.totalBudget))
      usedSpending(m) ==
        SumSeq(MapSeq(SelectSeq(contributingProjects, LAMBDA p : p.ministry = m.name),
                      LAMBDA p : p.totalSpendingAmount))
      totalSpending(m) ==
        IF m.name \in DOMAIN data.byMinistry THEN data.byMinistry[m.name] ELSE 0
  IN [EmptySelection EXCEPT
        !.topMinistries = topMinistries,
        !.otherMinistriesBudget =
           SumSeq(MapSeq(otherMinistries, LAMBDA m : m.totalBudget)),
        !.otherMinistriesSpending = StatsSpending(data, otherMinistries),
        !.topSpendings = topRecipients,
        !.topProjects = contributingProjects,
        !.otherProjectsBudgetByMinistry =
           MapSeq(SelectSeq(topMinistries, LAMBDA m : m.totalBudget - usedBudget(m) > 0),
                  LAMBDA m : <<m.name, m.totalBudget - usedBudget(m)>>),
        !.otherProjectsSpendingByMinistry =
           MapSeq(SelectSeq(topMinistries, LAMBDA m : totalSpending(m) - usedSpending(m) > 0),
                  LAMBDA m : <<m.name, totalSpending(m) - usedSpending(m)>>)]

\* "Aggregate Other named spendings": for every project of data.budgets, the
\* amount it pays to recipients with the reserved name (entries > 0 only)
OtherNamedSpendingByProject(data) ==
  LET otherNamedTotal(project) ==
        SumSeq(MapSeq(SelectSeq(data.spendings,
                         LAMBDA s : /\ s.spendingId \in SeqToSet(project.spendingIds)
                                    /\ s.spendingName = SONOTA),
                      LAMBDA s : AmountFrom(s, project.projectId)))
  IN MapSeq(SelectSeq(data.budgets, LAMBDA b : otherNamedTotal(b) > 0),
            LAMBDA b : <<b.projectId, otherNamedTotal(b)>>)

\* Ministry View, step 2, variant that ranks the reserved name like any other
MinistryRecipientEligibleAll(s) == TRUE

\* Ministry View, step 2: if (spending.spendingName === 'sonota') continue
MinistryRecipientEligible(s) == s.spendingName # SONOTA

\* --- Ministry View: drilldown-aware TopN selection (after the ministry lookup)
SelectMinistryView(data, o, ministry) ==
  LET sortedProjects ==
        SortDescBy(SelectSeq(data.budgets, LAMBDA p : p.ministry = o.targetMinistryName),
                   LAMBDA p : p.totalBudget)
      topProjects ==
        Slice(sortedProjects, o.projectOffset, o.projectOffset + o.projectLimit)
      afterPage == SliceFrom(sortedProjects, o.projectOffset + o.projectLimit)
      otherBudget == SumSeq(MapSeq(afterPage, LAMBDA p : p.totalBudget))
      otherSpending == SumSeq(MapSeq(afterPage, LAMBDA p : p.totalSpendingAmount))
      currentPageProjectIds == {topProjects[i].projectId : i \in 1..Len(topProjects)}
      totalFromCurrentPage(s) ==
        SumSeq(MapSeq(SelectSeq(s.projects, LAMBDA p : p.projectId \in currentPageProjectIds),
                      LAMBDA p : p.amount))
      currentPageSpendingMap ==
        MapSeq(SelectSeq(data.spendings,
                 LAMBDA s : MinistryRecipientEligible(s) /\ totalFromCurrentPage(s) > 0),
               LAMBDA s : <<s.spendingId, totalFromCurrentPage(s)>>)
      sortedSpendings == SortDescBy(currentPageSpendingMap, LAMBDA e : e[2])
      topSpendingIds ==
        {e[1] : e \in SeqToSet(Slice(sortedSpendings, 0, o.spendingLimit))}
      otherSpendingTotal(project) ==
        SumSeq(MapSeq(SelectSeq(data.spendings,
                         LAMBDA s : /\ s.spendingId \in SeqToSet(project.spendingIds)
                                    /\ s.spendingName # SONOTA
                                    /\ s.spendingId \notin topSpendingIds),
                      LAMBDA s : AmountFrom(s, project.projectId)))
  IN [EmptySelection EXCEPT
        !.topMinistries = <<TopMinistryOf(ministry)>>,
        !.otherNamedSpendingByProject = OtherNamedSpendingByProject(data),
        !.ministryTotalProjects = Len(sortedProjects),
        !.topProjects = topProjects,
        !.otherProjectsBudgetByMinistry =
           IF otherBudget > 0 THEN <<<<o.targetMinistryName, otherBudget>>>> ELSE <<>>,
        !.otherProjectsSpendingByMinistry =
           IF otherSpending > 0 THEN <<<<o.targetMinistryName, otherSpending>>>> ELSE <<>>,
        !.topSpendings =
           SelectSeq(data.spendings, LAMBDA s : s.spendingId \in topSpendingIds),
        !.otherSpendingsByProject =
           MapSeq(SelectSeq(topProjects, LAMBDA p : otherSpendingTotal(p) > 0),
                  LAMBDA p : <<p.projectId, otherSpendingTotal(p)>>)]

\* Project View, variant that ranks the reserved name like any other
ProjectRecipientEligibleAll(s) == TRUE

\* Project View: .filter(s => s.spendingName !== 'sonota')
ProjectRecipientEligible(s) == s.spendingName # SONOTA

\* --- Project View: top spendings of the single project (after the lookups)
SelectProjectView(data, o, project) ==
  LET ministries == SelectSeq(data.ministries, LAMBDA m : m.name = project.ministry)
      topProjects == <<project>>
      projectSpendings ==
        MapSeq(SelectSeq(data.spendings,
                 LAMBDA s : /\ s.spendingId \in SeqToSet(project.spendingIds)
                            /\ ProjectRecipientEligible(s)),
               LAMBDA s : [spending |-> s,
                           amountFromThisProject |-> AmountFrom(s, project.projectId)])
      sortedSpendings == SortDescBy(projectSpendings, LAMBDA e : e.amountFromThisProject)
      topSpendingIds ==
        {e.spending.spendingId : e \in SeqToSet(Slice(sortedSpendings, 0, o.spendingLimit))}
      otherSpendingTotal ==
        SumSeq(MapSeq(SliceFrom(sortedSpendings, o.spendingLimit),
                      LAMBDA e : e.amountFromThisProject))
  IN [EmptySelection EXCEPT
        !.topProjects = topProjects,
        !.topMinistries =
           IF Len(ministries) > 0 THEN <<TopMinistryOf(ministries[1])>> ELSE <<>>,
        !.otherNamedSpendingByProject = OtherNamedSpendingByProject(data),
        !.otherSpendingsByProject =
           IF otherSpendingTotal > 0
           THEN <<<<project.projectId, otherSpendingTotal>>>> ELSE <<>>,
        !.topSpendings =
           SelectSeq(data.spendings, LAMBDA s : s.spendingId \in topSpendingIds)]

\* the outcome of selectData: error is "" and selection is the DataSelection,
\* or error names the throw
Selected(sel) == [error |-> "", selection |-> sel]
Thrown(e) == [error |-> e, selection |-> EmptySelection]

\* selectData: mode dispatch, lookups and their throws.  An empty string is
\* an absent (falsy) target name.
selectData(data, o) ==
  IF o.targetRecipientName # ""
  THEN Selected(SelectSpendingView(data, o))
  ELSE IF o.targetProjectName # ""
  THEN LET found == SelectSeq(data.budgets, LAMBDA b : b.projectName = o.targetProjectName)
       IN IF Len(found) = 0
          THEN Thrown("Project not found")
          ELSE Selected(SelectProjectView(data, o, found[1]))
  ELSE IF o.targetMinistryName # ""
  THEN LET found == SelectSeq(data.ministries, LAMBDA m : m.name = o.targetMinistryName)
       IN IF Len(found) = 0
          THEN Thrown("Ministry not found")
          ELSE Selected(SelectMinistryView(data, o, found[1]))
  ELSE Selected(SelectGlobalView(data, o))

\* variant of the record store's ministries after selectData: sorts a copy
MinistriesAfterSelectCopy(data, o) == data.ministries

\* data.budgetTree.ministries after selectData: the Global View sorts the
\* array in place, the other views leave it alone
MinistriesAfterSelect(data, o) ==
  IF o.targetRecipientName = "" /\ o.targetProjectName = "" /\ o.targetMinistryName = ""
  THEN SortedMinistriesInPlace(data)
  ELSE data.ministries

-----------------------------------------------------------------------------
(* buildSankeyData                                                         *)

\* the dummy value 0.001, in thousandths
DUMMY == 1

Node(id, type, value) == [id |-> id, type |-> type, value |-> value]
\* a link, variant that points the other way
LinkReversed(source, target, value) ==
  [source |-> target, target |-> source, value |-> value]

\* a SankeyLink { source, target, value }
Link(source, target, value) == [source |-> source, target |-> target, value |-> value]

\* a template literal `prefix${n}`
Id(prefix, n) == prefix \o ToString(n)

NodeIds(nodes) == {nodes[i].id : i \in 1..Len(nodes)}

\* --- SPENDING VIEW (reverse flow with budget); returns without the final filter
BuildSpendingView(sel, o) ==
  LET topProjects == sel.topProjects
      topSpendings == sel.topSpendings
      topMinistries == sel.topMinistries
      recipientNodeId == "recipient-root"
      \* amount contributed by this project to the target recipient
      amount(project) ==
        SumSeq(MapSeq(SelectSeq(topSpendings, LAMBDA s : HasProject(s, project.projectId)),
                      LAMBDA s : AmountFrom(s, project.projectId)))
      paying == SelectSeq(topProjects, LAMBDA p : amount(p) > 0)
      totalRecipientValue == SumSeq(MapSeq(paying, amount))
      projectSpendingNodes ==
        MapSeq(paying, LAMBDA p :
          Node(Id("project-spending-", p.projectId), "project-spending", amount(p)))
      spendingLinks ==
        MapSeq(paying, LAMBDA p :
          Link(Id("project-spending-", p.projectId), recipientNodeId, amount(p)))
      projectBudgetNodes ==
        MapSeq(paying, LAMBDA p :
          Node(Id("project-budget-", p.projectId), "project-budget", p.totalBudget))
      budgetLinks ==
        MapSeq(paying, LAMBDA p :
          Link(Id("project-budget-", p.projectId), Id("project-spending-", p.projectId),
               IF Min(p.totalBudget, amount(p)) > 0
               THEN Min(p.totalBudget, amount(p)) ELSE DUMMY))
      ministryProjects(m) == SelectSeq(topProjects, LAMBDA p : p.ministry = m.name)
      ministryBudget(m) == SumSeq(MapSeq(ministryProjects(m), LAMBDA p : p.totalBudget))
      ministryLinks ==
        Flatten(MapSeq(topMinistries, LAMBDA m :
          MapSeq(ministryProjects(m), LAMBDA p :
            Link(Id("ministry-budget-", m.id), Id("project-budget-", p.projectId),
                 IF p.totalBudget > 0 THEN p.totalBudget ELSE DUMMY))))
      ministryBudgetNodes ==
        MapSeq(topMinistries, LAMBDA m :
          Node(Id("ministry-budget-", m.id), "ministry-budget",
               IF ministryBudget(m) > 0 THEN ministryBudget(m) ELSE DUMMY))
      \* projects outside the page, within the kept ministries
      otherProjectsSpending == sel.otherProjectsSpendingInSpendingView
      ministryIdOf(name) ==
        SelectSeq(topMinistries, LAMBDA m : m.name = name)[1].id
      otherProjectsNodes ==
        IF otherProjectsSpending > 0
        THEN << Node("project-budget-other-spending-view", "project-budget",
                     otherProjectsSpending),
                Node("project-spending-other-spending-view", "project-spending",
                     otherProjectsSpending) >>
        ELSE <<>>
      otherProjectsLinks ==
        IF otherProjectsSpending > 0
        THEN MapSeq(SelectSeq(sel.otherProjectsSpendingByMinistryInSpendingView,
                      LAMBDA e : /\ \E i \in 1..Len(topMinistries) : topMinistries[i].name = e[1]
                                 /\ e[2] > 0),
                    LAMBDA e : Link(Id("ministry-budget-", ministryIdOf(e[1])),
                                    "project-budget-other-spending-view", e[2]))
             \o << Link("project-budget-other-spending-view",
                        "project-spending-other-spending-view", otherProjectsSpending),
                   Link("project-spending-other-spending-view", recipientNodeId,
                        otherProjectsSpending) >>
        ELSE <<>>
      \* ministries outside the kept ministries
      otherMinistriesSpending == sel.otherMinistriesSpendingInSpendingView
      otherMinistriesNodes ==
        IF otherMinistriesSpending > 0
        THEN << Node("ministry-budget-other-spending-view", "ministry-budget",
                     otherMinistriesSpending),
                Node("project-budget-other-ministry-spending-view", "project-budget",
                     otherMinistriesSpending),
                Node("project-spending-other-ministry-spending-view", "project-spending",
                     otherMinistriesSpending) >>
        ELSE <<>>
      otherMinistriesLinks ==
        IF otherMinistriesSpending > 0
        THEN << Link("ministry-budget-other-spending-view",
                     "project-budget-other-ministry-spending-view", otherMinistriesSpending),
                Link("project-budget-other-ministry-spending-view",
                     "project-spending-other-ministry-spending-view", otherMinistriesSpending),
                Link("project-spending-other-ministry-spending-view", recipientNodeId,
                     otherMinistriesSpending) >>
        ELSE <<>>
  IN [nodes |-> << Node(recipientNodeId, "recipient", totalRecipientValue) >>
                  \o projectSpendingNodes \o projectBudgetNodes \o ministryBudgetNodes
                  \o otherProjectsNodes \o otherMinistriesNodes,
      links |-> spendingLinks \o budgetLinks \o ministryLinks
                  \o otherProjectsLinks \o otherMinistriesLinks]

\* calculateOtherProjectsOtherNamedByMinistry: per kept ministry, the amount its
\* projects outside topProjects pay to the reserved name (entries > 0 only)
calculateOtherProjectsOtherNamedByMinistry(topMinistries, topProjects, otherNamedSpendingByProject, fullData) ==
  LET ministryProjectIds(m) ==
        {p.projectId : p \in {q \in SeqToSet(topProjects) : q.ministry = m.name}}
      otherProjectsOtherNamedAmount(m) ==
        SumSeq(MapSeq(SelectSeq(fullData.budgets,
                         LAMBDA b : /\ b.ministry = m.name
                                    /\ b.projectId \notin ministryProjectIds(m)),
                      LAMBDA b : MapGet(otherNamedSpendingByProject, b.projectId)))
  IN MapSeq(SelectSeq(topMinistries, LAMBDA m : otherProjectsOtherNamedAmount(m) > 0),
            LAMBDA m : [id |-> m.id, name |-> m.name,
                        amount |-> otherProjectsOtherNamedAmount(m)])

\* the final pass, variant that keeps every link
FilterLinksKeepAll(links) == links

\* const filteredLinks = links.filter(link => link.value > 0)
FilterLinks(links) == SelectSeq(links, LAMBDA l : l.value > 0)

\* the final pass, variant that keeps every node
FilterNodesKeepAll(nodes, links) == nodes

\* const filteredNodes = nodes.filter(node => linkedNodeIds.has(node.id)), with
\* linkedNodeIds collected from the links before they are filtered by value
FilterNodes(nodes, links) ==
  LET linkedNodeIds == {links[i].source : i \in 1..Len(links)}
                         \cup {links[i].target : i \in 1..Len(links)}
  IN SelectSeq(nodes, LAMBDA n : n.id \in linkedNodeIds)

\* adding a recipient node, variant without the check for an earlier one
PushRecipientAlways(recipientNodes, node) == Append(recipientNodes, node)

\* if (!recipientNodes.some(n => n.id === `recipient-${spending.spendingId}`))
\*   recipientNodes.push(...)
PushRecipientOnce(recipientNodes, node) ==
  IF node.id \in NodeIds(recipientNodes) THEN recipientNodes ELSE Append(recipientNodes, node)

\* the recipient column, variant that puts the leftover-recipients node first
PushRecipientsOtherFirst(regularRecipients, otherNamedRecipient, aggregatedOther, noSpendingRecipient) ==
  aggregatedOther \o regularRecipients \o otherNamedRecipient \o noSpendingRecipient

\* nodes.push(...regularRecipients, ...otherNamedRecipient, ...aggregatedOther,
\*            ...noSpendingRecipient)
PushRecipients(regularRecipients, otherNamedRecipient, aggregatedOther, noSpendingRecipient) ==
  regularRecipients \o otherNamedRecipient \o aggregatedOther \o noSpendingRecipient

\* the project-budget -> project-spending link value, variant that lets the
\* whole budget through
ProjectLinkValueBudget(project) ==
  IF project.totalBudget = 0 /\ project.totalSpendingAmount > 0
  THEN DUMMY ELSE project.totalBudget

\* the project-budget -> project-spending link value, variant without the
\* 0.001 case
ProjectLinkValueNoDummy(project) ==
  Min(project.totalBudget, project.totalSpendingAmount)

\* let linkValue = Math.min(project.totalBudget, project.totalSpendingAmount),
\* 0.001 if the budget is 0 but spending exists
ProjectLinkValue(project) ==
  IF project.totalBudget = 0 /\ project.totalSpendingAmount > 0
  THEN DUMMY ELSE Min(project.totalBudget, project.totalSpendingAmount)

\* the test for a project without recipients, variant that never holds
HasNoSpendingNever(project) == FALSE

\* if (project.spendingIds.length === 0): the project goes to
\* projectsWithNoSpending and gets no project-spending node
HasNoSpending(project) == Len(project.spendingIds) = 0

\* --- STANDARD VIEWS (Global, Ministry, Project)
BuildStandardView(sel, fullData, o) ==
  LET tM == o.targetMinistryName # ""
      tP == o.targetProjectName # ""
      isGlobalView == ~tM /\ ~tP
      topMinistries == sel.topMinistries
      topProjects == sel.topProjects
      topSpendings == sel.topSpendings
      otherMinistriesBudget == sel.otherMinistriesBudget
      topProjectIds == {topProjects[i].projectId : i \in 1..Len(topProjects)}
      topSpendingIds == {topSpendings[i].spendingId : i \in 1..Len(topSpendings)}
      pageBudget(m) ==
        SumSeq(MapSeq(SelectSeq(topProjects, LAMBDA p : p.ministry = m.name),
                      LAMBDA p : p.totalBudget))
      \* Column 0: total budget
      totalNodes ==
        IF ~tM
        THEN << Node("total-budget", "ministry-budget",
                     SumSeq(MapSeq(topMinistries, LAMBDA m : m.totalBudget))
                       + otherMinistriesBudget) >>
        ELSE <<>>
      totalLinks ==
        IF ~tM /\ ~tP
        THEN MapSeq(topMinistries, LAMBDA m :
               Link("total-budget", Id("ministry-budget-", m.id),
                    IF tM THEN (IF pageBudget(m) = 0 THEN DUMMY ELSE pageBudget(m))
                    ELSE m.totalBudget))
             \o (IF otherMinistriesBudget > 0
                 THEN << Link("total-budget", "ministry-budget-other",
                              otherMinistriesBudget) >>
                 ELSE <<>>)
        ELSE <<>>
      \* Column 1: ministries
      standardMinistryNodes ==
        IF ~tP
        THEN MapSeq(topMinistries, LAMBDA m :
               Node(Id("ministry-budget-", m.id), "ministry-budget",
                    IF tM THEN (IF pageBudget(m) = 0 THEN DUMMY ELSE pageBudget(m))
                    ELSE m.totalBudget))
             \o (IF isGlobalView /\ otherMinistriesBudget > 0
                 THEN << Node("ministry-budget-other", "ministry-budget",
                              otherMinistriesBudget) >>
                 ELSE <<>>)
        ELSE <<>>
      \* Column 2: project budgets
      budgetValue(p) ==
        IF p.totalBudget = 0 /\ p.totalSpendingAmount > 0 THEN DUMMY ELSE p.totalBudget
      ministriesNamed(name) == SelectSeq(topMinistries, LAMBDA m : m.name = name)
      keptBudgetNodes ==
        MapSeq(topProjects, LAMBDA p :
          Node(Id("project-budget-", p.projectId), "project-budget", budgetValue(p)))
      keptBudgetLinks ==
        Flatten(MapSeq(topProjects, LAMBDA p :
          IF ~tP
          THEN IF Len(ministriesNamed(p.ministry)) > 0
               THEN << Link(Id("ministry-budget-", ministriesNamed(p.ministry)[1].id),
                            Id("project-budget-", p.projectId), budgetValue(p)) >>
               ELSE IF isGlobalView /\ otherMinistriesBudget > 0
               THEN << Link("ministry-budget-other",
                            Id("project-budget-", p.projectId), budgetValue(p)) >>
               ELSE <<>>
          ELSE << Link("total-budget", Id("project-budget-", p.projectId),
                       budgetValue(p)) >>))
      otherBudgetOf(m) == MapGet(sel.otherProjectsBudgetByMinistry, m.name)
      otherSpendingOf(m) == MapGet(sel.otherProjectsSpendingByMinistry, m.name)
      withOther == SelectSeq(topMinistries, LAMBDA m : otherBudgetOf(m) > 0)
      otherBudgetNodes ==
        IF ~isGlobalView /\ ~tP
        THEN MapSeq(withOther, LAMBDA m :
               Node(Id("project-budget-other-", m.id), "project-budget", otherBudgetOf(m)))
        ELSE <<>>
      otherBudgetLinks ==
        IF ~isGlobalView /\ ~tP
        THEN MapSeq(withOther, LAMBDA m :
               Link(Id("ministry-budget-", m.id), Id("project-budget-other-", m.id),
                    otherBudgetOf(m)))
        ELSE <<>>
      globalOtherBudget ==
        SumSeq(MapSeq(withOther, otherBudgetOf))
          + (IF otherMinistriesBudget > 0 THEN otherMinistriesBudget ELSE 0)
      globalOtherBudgetLinks ==
        IF isGlobalView
        THEN MapSeq(withOther, LAMBDA m :
               Link(Id("ministry-budget-", m.id), "project-budget-other-global",
                    otherBudgetOf(m)))
             \o (IF otherMinistriesBudget > 0
                 THEN << Link("ministry-budget-other", "project-budget-other-global",
                              otherMinistriesBudget) >>
                 ELSE <<>>)
        ELSE <<>>
      globalOtherBudgetNodes ==
        IF isGlobalView /\ globalOtherBudget > 0
        THEN << Node("project-budget-other-global", "project-budget", globalOtherBudget) >>
        ELSE <<>>
      projectBudgetNodes == keptBudgetNodes \o otherBudgetNodes \o globalOtherBudgetNodes
      \* Column 3: project spendings
      projectsWithNoSpending == SelectSeq(topProjects, HasNoSpending)
      withSpending == SelectSeq(topProjects, LAMBDA p : ~HasNoSpending(p))
      keptSpendingNodes ==
        MapSeq(withSpending, LAMBDA p :
          Node(Id("project-spending-", p.projectId), "project-spending",
               p.totalSpendingAmount))
      keptSpendingLinks ==
        MapSeq(withSpending, LAMBDA p :
          Link(Id("project-budget-", p.projectId), Id("project-spending-", p.projectId),
               ProjectLinkValue(p)))
      otherSpendingNodes ==
        IF ~isGlobalView /\ ~tP
        THEN MapSeq(withOther, LAMBDA m :
               Node(Id("project-spending-other-", m.id), "project-spending",
                    otherSpendingOf(m)))
        ELSE <<>>
      otherSpendingLinks ==
        IF ~isGlobalView /\ ~tP
        THEN MapSeq(withOther, LAMBDA m :
               Link(Id("project-budget-other-", m.id), Id("project-spending-other-", m.id),
                    IF Min(otherBudgetOf(m), otherSpendingOf(m)) = 0
                    THEN DUMMY ELSE Min(otherBudgetOf(m), otherSpendingOf(m))))
        ELSE <<>>
      totalOtherSpending ==
        SumSeq(MapSeq(topMinistries, otherSpendingOf)) + sel.otherMinistriesSpending
      totalOtherBudget ==
        SumSeq(MapSeq(topMinistries, otherBudgetOf)) + otherMinistriesBudget
      hasGlobalOtherSpending == isGlobalView /\ totalOtherSpending > 0
      globalOtherSpendingNodes ==
        IF hasGlobalOtherSpending
        THEN << Node("project-spending-other-global", "project-spending",
                     totalOtherSpending) >>
        ELSE <<>>
      globalOtherSpendingLinks ==
        IF hasGlobalOtherSpending /\ Min(totalOtherBudget, totalOtherSpending) > 0
        THEN << Link("project-budget-other-global", "project-spending-other-global",
                     Min(totalOtherBudget, totalOtherSpending)) >>
        ELSE <<>>
      projectSpendingNodes ==
        keptSpendingNodes \o otherSpendingNodes \o globalOtherSpendingNodes
      \* the nodes array when the recipient column is built
      nodes == totalNodes \o standardMinistryNodes \o projectBudgetNodes
                 \o projectSpendingNodes
      otherNodeExists(m) == Id("project-spending-other-", m.id) \in NodeIds(nodes)
      \* Column 4: kept recipients
      fromTopProjects(s) ==
        SumSeq(MapSeq(SelectSeq(s.projects, LAMBDA sp : sp.projectId \in topProjectIds),
                      LAMBDA sp : sp.amount))
      globalRecipientNodes ==
        MapSeq(topSpendings, LAMBDA s :
          Node(Id("recipient-", s.spendingId), "recipient", fromTopProjects(s)))
      globalRecipientLinks ==
        Flatten(MapSeq(topSpendings, LAMBDA s :
          MapSeq(SelectSeq(s.projects, LAMBDA sp : sp.projectId \in topProjectIds),
                 LAMBDA sp : Link(Id("project-spending-", sp.projectId),
                                  Id("recipient-", s.spendingId), sp.amount))))
      recipientSpendingAmounts(s) ==
        SumSeq(MapSeq(SelectSeq(topProjects, LAMBDA p : HasProject(s, p.projectId)),
                      LAMBDA p : AmountFrom(s, p.projectId)))
      pairs ==
        Flatten(MapSeq(topProjects, LAMBDA p :
          MapSeq(SelectSeq(topSpendings, LAMBDA s : HasProject(s, p.projectId)),
                 LAMBDA s : [project |-> p, spending |-> s])))
      pagedRecipientNodes ==
        FoldSeq(LAMBDA acc, e :
                  PushRecipientOnce(acc, Node(Id("recipient-", e.spending.spendingId),
                                              "recipient",
                                              recipientSpendingAmounts(e.spending))),
                <<>>, pairs)
      pagedRecipientLinks ==
        MapSeq(pairs, LAMBDA e :
          Link(Id("project-spending-", e.project.projectId),
               Id("recipient-", e.spending.spendingId),
               IF AmountFrom(e.spending, e.project.projectId) = 0
               THEN DUMMY ELSE AmountFrom(e.spending, e.project.projectId)))
      regularRecipients ==
        IF isGlobalView THEN globalRecipientNodes ELSE pagedRecipientNodes
      regularLinks ==
        IF isGlobalView THEN globalRecipientLinks ELSE pagedRecipientLinks
      \* the reserved-name recipient
      totalOtherNamedAmount == SumSeq(MapValues(sel.otherNamedSpendingByProject))
      otherProjectsOtherNamed ==
        calculateOtherProjectsOtherNamedByMinistry(topMinistries, topProjects,
          sel.otherNamedSpendingByProject, fullData)
      otherNamedRecipient ==
        IF totalOtherNamedAmount > 0
        THEN << Node("recipient-other-named", "recipient", totalOtherNamedAmount) >>
        ELSE <<>>
      otherNamedLinks ==
        IF totalOtherNamedAmount > 0
        THEN MapSeq(SelectSeq(sel.otherNamedSpendingByProject,
                              LAMBDA e : e[1] \in topProjectIds),
                    LAMBDA e : Link(Id("project-spending-", e[1]), "recipient-other-named",
                                    IF e[2] = 0 THEN DUMMY ELSE e[2]))
             \o (IF ~tP /\ ~isGlobalView
                 THEN MapSeq(SelectSeq(otherProjectsOtherNamed, otherNodeExists),
                             LAMBDA e : Link(Id("project-spending-other-", e.id),
                                             "recipient-other-named", e.amount))
                 ELSE <<>>)
        ELSE <<>>
      \* Ministry View: projects after the current page
      otherProjects(m) ==
        LET ids == {p.projectId : p \in {q \in SeqToSet(topProjects) : q.ministry = m.name}}
            sortedMinistryProjects ==
              SortDescBy(SelectSeq(fullData.budgets, LAMBDA b : b.ministry = m.name),
                         LAMBDA b : b.totalBudget)
            hits == {i \in 1..Len(sortedMinistryProjects) :
                       sortedMinistryProjects[i].projectId \in ids}
            currentPageStart ==
              IF hits = {} THEN -1
              ELSE (CHOOSE i \in hits : \A j \in hits : i <= j) - 1
            currentPageEnd == currentPageStart + Cardinality(ids)
        IN SliceFrom(sortedMinistryProjects, currentPageEnd)
      amountFromOtherProjects(m, s) ==
        SumSeq(MapSeq(SelectSeq(otherProjects(m), LAMBDA p : HasProject(s, p.projectId)),
                      LAMBDA p : AmountFrom(s, p.projectId)))
      recipientHasNodeFromTopProjects(s) ==
        \E i \in 1..Len(topProjects) : HasProject(s, topProjects[i].projectId)
      otherToTopLinks ==
        IF ~isGlobalView /\ ~tP
        THEN Flatten(MapSeq(topMinistries, LAMBDA m :
               MapSeq(SelectSeq(topSpendings,
                        LAMBDA s : /\ amountFromOtherProjects(m, s) > 0
                                   /\ recipientHasNodeFromTopProjects(s)
                                   /\ otherNodeExists(m)),
                      LAMBDA s : Link(Id("project-spending-other-", m.id),
                                      Id("recipient-", s.spendingId),
                                      amountFromOtherProjects(m, s)))))
        ELSE <<>>
      \* the aggregated "other recipients" node: Global View
      projectTotalToOthers(p) ==
        SumSeq(MapSeq(SelectSeq(fullData.spendings,
                         LAMBDA s : /\ s.spendingId \in SeqToSet(p.spendingIds)
                                    /\ s.spendingId \notin topSpendingIds
                                    /\ s.spendingName # SONOTA),
                      LAMBDA s : AmountFrom(s, p.projectId)))
      \* otherSpendingsByProject.set(project.projectId, projectTotalToOthers)
      otherSpendingsByProject ==
        IF isGlobalView
        THEN FoldSeq(LAMBDA m, p : IF projectTotalToOthers(p) > 0
                                   THEN MapSet(m, p.projectId, projectTotalToOthers(p))
                                   ELSE m,
                     sel.otherSpendingsByProject, topProjects)
        ELSE sel.otherSpendingsByProject
      globalOtherRecipientAmount ==
        (IF hasGlobalOtherSpending THEN totalOtherSpending ELSE 0)
          + SumSeq(MapSeq(topProjects, LAMBDA p :
                     IF projectTotalToOthers(p) > 0 THEN projectTotalToOthers(p) ELSE 0))
      \* Ministry / Project View
      otherNamedByName(m) ==
        IF totalOtherNamedAmount > 0 /\ ~tP
        THEN SumSeq(MapSeq(SelectSeq(otherProjectsOtherNamed, LAMBDA e : e.name = m.name),
                           LAMBDA e : e.amount))
        ELSE 0
      pagedOtherRecipientAmount ==
        SumSeq(MapSeq(topMinistries, LAMBDA m :
                 IF otherBudgetOf(m) - otherNamedByName(m) > 0
                 THEN otherBudgetOf(m) - otherNamedByName(m) ELSE 0))
          + SumSeq(MapValues(sel.otherSpendingsByProject))
      totalOtherRecipientAmount ==
        IF isGlobalView THEN globalOtherRecipientAmount ELSE pagedOtherRecipientAmount
      aggregatedOther ==
        IF totalOtherRecipientAmount > 0
        THEN << Node("recipient-other-aggregated", "recipient", totalOtherRecipientAmount) >>
        ELSE <<>>
      \* Global View links into the recipient column from "other projects"
      selectedMinistryNames == {topMinistries[i].name : i \in 1..Len(topMinistries)}
      receivedFromTopProjects(r) ==
        SumSeq(MapSeq(SelectSeq(topProjects, LAMBDA p : HasProject(r, p.projectId)),
                      LAMBDA p : AmountFrom(r, p.projectId)))
      totalFromSelectedMinistries(r) ==
        SumSeq(MapSeq(SelectSeq(r.projects,
                         LAMBDA sp : \E i \in 1..Len(fullData.budgets) :
                            /\ fullData.budgets[i].projectId = sp.projectId
                            /\ \A j \in 1..(i - 1) :
                                 fullData.budgets[j].projectId # sp.projectId
                            /\ fullData.budgets[i].ministry \in selectedMinistryNames),
                      LAMBDA sp : sp.amount))
      remainder(r) == totalFromSelectedMinistries(r) - receivedFromTopProjects(r)
      withRemainder ==
        SelectSeq(topSpendings, LAMBDA r : remainder(r) > 0 /\ hasGlobalOtherSpending)
      otherProjectsValueUsed == SumSeq(MapSeq(withRemainder, remainder))
      globalAggregatedLinks ==
        MapSeq(withRemainder, LAMBDA r :
          Link("project-spending-other-global", Id("recipient-", r.spendingId),
               remainder(r)))
        \o (IF hasGlobalOtherSpending /\ totalOtherSpending - otherProjectsValueUsed > 0
            THEN << Link("project-spending-other-global", "recipient-other-aggregated",
                         totalOtherSpending - otherProjectsValueUsed) >>
            ELSE <<>>)
        \o MapSeq(otherSpendingsByProject, LAMBDA e :
             Link(Id("project-spending-", e[1]), "recipient-other-aggregated",
                  IF e[2] = 0 THEN DUMMY ELSE e[2]))
      \* Ministry View links from "other projects" to "other recipients"
      amountToOtherRecipients(m) ==
        SumSeq(Flatten(MapSeq(otherProjects(m), LAMBDA p :
          MapSeq(SelectSeq(fullData.spendings,
                   LAMBDA s : /\ s.spendingName # SONOTA
                              /\ s.spendingId \notin topSpendingIds
                              /\ HasProject(s, p.projectId)),
                 LAMBDA s : AmountFrom(s, p.projectId)))))
      pagedAggregatedLinks ==
        (IF ~tP
         THEN MapSeq(SelectSeq(topMinistries,
                       LAMBDA m : amountToOtherRecipients(m) > 0 /\ otherNodeExists(m)),
                     LAMBDA m : Link(Id("project-spending-other-", m.id),
                                     "recipient-other-aggregated",
                                     amountToOtherRecipients(m)))
         ELSE <<>>)
        \o MapSeq(SelectSeq(otherSpendingsByProject, LAMBDA e : e[2] >= 0),
                  LAMBDA e : Link(Id("project-spending-", e[1]), "recipient-other-aggregated",
                                  IF e[2] = 0 THEN DUMMY ELSE e[2]))
      aggregatedLinks ==
        IF totalOtherRecipientAmount > 0
        THEN IF isGlobalView THEN globalAggregatedLinks ELSE pagedAggregatedLinks
        ELSE <<>>
      \* projects with no recipient
      noSpendingRecipient ==
        IF Len(projectsWithNoSpending) > 0
        THEN << Node("recipient-no-spending", "recipient", 0) >>
        ELSE <<>>
      noSpendingLinks ==
        MapSeq(projectsWithNoSpending, LAMBDA p :
          Link(Id("project-budget-", p.projectId), "recipient-no-spending", DUMMY))
      allNodes == nodes \o PushRecipients(regularRecipients, otherNamedRecipient,
                                          aggregatedOther, noSpendingRecipient)
      allLinks == totalLinks \o keptBudgetLinks \o otherBudgetLinks
                    \o globalOtherBudgetLinks \o keptSpendingLinks \o otherSpendingLinks
                    \o globalOtherSpendingLinks \o regularLinks \o otherNamedLinks
                    \o otherToTopLinks \o aggregatedLinks \o noSpendingLinks
  IN [nodes |-> FilterNodes(allNodes, allLinks), links |-> FilterLinks(allLinks)]

\* buildSankeyData
buildSankeyData(sel, fullData, o) ==
  IF o.targetRecipientName # ""
  THEN BuildSpendingView(sel, o)
  ELSE BuildStandardView(sel, fullData, o)

-----------------------------------------------------------------------------
(* generateSankeyData                                                      *)

CACHE_SIZE_LIMIT == 100

\* options.f ?? d, and the destructuring default f = d: an omitted field of
\* the options object is a name outside its domain
Opt(options, f, d) == IF f \in DOMAIN options THEN options[f] ELSE d

\* getCacheKey, variant that substitutes the defaults of the HTTP route
\* (limit 10, projectLimit 15, spendingLimit 10)
getCacheKeyRouteDefaults(options) ==
  [ministryOffset |-> Opt(options, "ministryOffset", 0),
   projectOffset |-> Opt(options, "projectOffset", 0),
   projectDrilldownLevel |-> Opt(options, "projectDrilldownLevel", 0),
   ministryLimit |-> Opt(options, "ministryLimit", 10),
   projectLimit |-> Opt(options, "projectLimit", 15),
   spendingLimit |-> Opt(options, "spendingLimit", 10),
   targetMinistryName |-> Opt(options, "targetMinistryName", ""),
   targetProjectName |-> Opt(options, "targetProjectName", ""),
   targetRecipientName |-> Opt(options, "targetRecipientName", ""),
   drilldownLevel |-> Opt(options, "drilldownLevel", 0)]

\* getCacheKey: the canonical options, whose JSON text is the key
getCacheKey(options) ==
  [ministryOffset |-> Opt(options, "ministryOffset", 0),
   projectOffset |-> Opt(options, "projectOffset", 0),
   projectDrilldownLevel |-> Opt(options, "projectDrilldownLevel", 0),
   ministryLimit |-> Opt(options, "ministryLimit", 3),
   projectLimit |-> Opt(options, "projectLimit", 3),
   spendingLimit |-> Opt(options, "spendingLimit", 5),
   targetMinistryName |-> Opt(options, "targetMinistryName", ""),
   targetProjectName |-> Opt(options, "targetProjectName", ""),
   targetRecipientName |-> Opt(options, "targetRecipientName", ""),
   drilldownLevel |-> Opt(options, "drilldownLevel", 0)]

\* the destructured options, variant whose project offset is always the
\* deprecated projectOffset
ResolveOptionsNoDrilldown(options) ==
  [offset |-> Opt(options, "ministryOffset", 0),
   projectOffset |-> Opt(options, "projectOffset", 0),
   limit |-> Opt(options, "ministryLimit", 3),
   projectLimit |-> Opt(options, "projectLimit", 3),
   spendingLimit |-> Opt(options, "spendingLimit", 5),
   targetMinistryName |-> Opt(options, "targetMinistryName", ""),
   targetProjectName |-> Opt(options, "targetProjectName", ""),
   targetRecipientName |-> Opt(options, "targetRecipientName", ""),
   drilldownLevel |-> Opt(options, "drilldownLevel", 0)]

\* the destructured options of generateSankeyData with calculatedProjectOffset,
\* as passed to selectData and buildSankeyData
ResolveOptions(options) ==
  LET projectDrilldownLevel == Opt(options, "projectDrilldownLevel", 0)
      projectLimit == Opt(options, "projectLimit", 3)
  IN [offset |-> Opt(options, "ministryOffset", 0),
      projectOffset |-> IF projectDrilldownLevel > 0
                        THEN projectDrilldownLevel * projectLimit
                        ELSE Opt(options, "projectOffset", 0),
      limit |-> Opt(options, "ministryLimit", 3),
      projectLimit |-> projectLimit,
      spendingLimit |-> Opt(options, "spendingLimit", 5),
      targetMinistryName |-> Opt(options, "targetMinistryName", ""),
      targetProjectName |-> Opt(options, "targetProjectName", ""),
      targetRecipientName |-> Opt(options, "targetRecipientName", ""),
      drilldownLevel |-> Opt(options, "drilldownLevel", 0)]

EmptyGraph == [nodes |-> <<>>, links |-> <<>>]

\* selectedBudget, variant that sums the kept ministries' budgets
SelectedBudgetOfMinistries(sel) ==
  SumSeq(MapSeq(sel.topMinistries, LAMBDA m : m.totalBudget))

\* selectedBudget = selection.topProjects.reduce((sum, p) => sum + p.totalBudget, 0)
SelectedBudget(sel) == SumSeq(MapSeq(sel.topProjects, LAMBDA p : p.totalBudget))

\* the RS2024PresetData envelope without generatedAt; coverageRate is the
\* exact fraction num / den
Envelope(sel, sankeyData, fullData, o) ==
  LET selectedBudget == SelectedBudget(sel)
  IN [presetType |-> IF o.targetRecipientName # "" THEN "spending"
                     ELSE IF o.targetProjectName # "" THEN "project"
                     ELSE IF o.targetMinistryName # "" THEN "ministry"
                     ELSE "global",
      summary |-> [totalMinistries |-> Len(fullData.ministries),
                   totalProjects |-> Len(fullData.budgets),
                   totalSpendings |-> Len(fullData.spendings),
                   selectedMinistries |-> Len(sel.topMinistries),
                   selectedProjects |-> Len(sel.topProjects),
                   selectedSpendings |-> IF o.targetRecipientName # "" THEN 1
                                         ELSE Len(sel.topSpendings),
                   totalBudget |-> fullData.totalBudgetAmount,
                   selectedBudget |-> selectedBudget,
                   coverageRate |-> [num |-> selectedBudget * 100,
                                     den |-> fullData.totalBudgetAmount],
                   ministryTotalProjects |-> sel.ministryTotalProjects],
      sankey |-> sankeyData]

NoEnvelope ==
  [presetType |-> "",
   summary |-> [totalMinistries |-> 0, totalProjects |-> 0, totalSpendings |-> 0,
                selectedMinistries |-> 0, selectedProjects |-> 0,
                selectedSpendings |-> 0, totalBudget |-> 0, selectedBudget |-> 0,
                coverageRate |-> [num |-> 0, den |-> 0],
                ministryTotalProjects |-> 0],
   sankey |-> EmptyGraph]

\* what one call did: the key, whether it returned from the cache, whether it
\* read the file, ran selectData and buildSankeyData, the error thrown ("" if
\* none), the envelope returned and the selection it was built from
Call(key, hit, readFile, ranSelect, ranBuild, error, envelope, sel) ==
  [key |-> key, hit |-> hit, readFile |-> readFile, ranSelect |-> ranSelect,
   ranBuild |-> ranBuild, error |-> error, envelope |-> envelope, selection |-> sel]

\* resultCache.get(cacheKey)
CacheGet(cache, key) == cache[CHOOSE i \in 1..Len(cache) : cache[i][1] = key][2]

\* "Update cache", variant that never evicts
CacheUpdateNoEvict(cache, key, result) == Append(cache, <<key, result>>)

\* "Update cache", variant that deletes the newest key instead of the first
CacheUpdateEvictNewest(cache, key, result) ==
  Append(IF Len(cache) >= CACHE_SIZE_LIMIT
         THEN SubSeq(cache, 1, Len(cache) - 1) ELSE cache,
         <<key, result>>)

\* "Update cache": at the size limit delete the first key, then set
CacheUpdate(cache, key, result) ==
  Append(IF Len(cache) >= CACHE_SIZE_LIMIT THEN Tail(cache) ELSE cache,
         <<key, result>>)

\* the cache-hit test, variant that always misses
CacheHasNever(cache, key) == FALSE

\* resultCache.has(cacheKey)
CacheHas(cache, key) == MapHas(cache, key)

\* the cache after a call whose selectData threw, variant that stores the
\* empty envelope
CacheAfterThrowStore(cache, key) == Append(cache, <<key, NoEnvelope>>)

\* the cache after a call whose selectData threw: the throw leaves it alone
CacheAfterThrow(cache, key) == cache

\* the load test, variant that reads the file on every miss
NoSnapshotEver(snapshot) == TRUE

\* !cachedData: no snapshot of the record store is held
NoSnapshot(snapshot) == snapshot = <<>>

\* "Update cache" and the return of generateSankeyData
Respond(st, cacheKey, readFile, after, sel, result) ==
  [cachedData |-> <<after>>,
   resultCache |-> CacheUpdate(st.resultCache, cacheKey, result),
   call |-> Call(cacheKey, FALSE, readFile, TRUE, TRUE, "", result, sel)]

\* after selectData: its throw leaves generateSankeyData at once; otherwise
\* buildSankeyData runs on the selection and the store as selectData left it
Build(st, cacheKey, o, readFile, fullData, after, selected) ==
  IF selected.error # ""
  THEN [cachedData |-> <<fullData>>,
        resultCache |-> CacheAfterThrow(st.resultCache, cacheKey),
        call |-> Call(cacheKey, FALSE, readFile, TRUE, FALSE, selected.error,
                      NoEnvelope, EmptySelection)]
  ELSE Respond(st, cacheKey, readFile, after, selected.selection,
               Envelope(selected.selection,
                        buildSankeyData(selected.selection, after, o), after, o))

\* the cache miss once fullData is loaded
Select(st, cacheKey, o, readFile, fullData) ==
  Build(st, cacheKey, o, readFile, fullData,
        [fullData EXCEPT !.ministries = MinistriesAfterSelect(fullData, o)],
        selectData(fullData, o))

\* generateSankeyData on the program state st = [cachedData, resultCache]
\* with the file as it is; gives the state after the call and the call record
generateSankeyData(st, theFile, theFileOK, options) ==
  IF CacheHas(st.resultCache, getCacheKey(options))
  THEN [cachedData |-> st.cachedData,
        resultCache |-> st.resultCache,
        call |-> Call(getCacheKey(options), TRUE, FALSE, FALSE, FALSE, "",
                      CacheGet(st.resultCache, getCacheKey(options)), EmptySelection)]
  ELSE IF NoSnapshot(st.cachedData) /\ ~theFileOK
  THEN [cachedData |-> <<>>,
        resultCache |-> st.resultCache,
        call |-> Call(getCacheKey(options), FALSE, TRUE, FALSE, FALSE,
                      "Failed to load data source", NoEnvelope, EmptySelection)]
  ELSE Select(st, getCacheKey(options), ResolveOptions(options),
              NoSnapshot(st.cachedData),
              IF NoSnapshot(st.cachedData) THEN theFile ELSE st.cachedData[1])

-----------------------------------------------------------------------------
(* Record stores                                                           *)

MinRow(id, name) == [id |-> id, name |-> name, bureauCount |-> 1]
ProjRow(id, ministry, budget) ==
  [projectId |-> id, projectName |-> Id("P", id), ministry |-> ministry,
   totalBudget |-> Yen(budget)]
Pay(projectId, amount) == [projectId |-> projectId, amount |-> Yen(amount)]
SpendRow(id, name, projects) ==
  [spendingId |-> id, spendingName |-> name, projects |-> projects]

\* four ministries stored in an order that is not the budget order; a
\* zero-budget project with spending (P3), a project without recipients (P4),
\* zero-budget projects without recipients (P6, P7), a ministry whose budget
\* is 0 (M4), the reserved name paid by three projects
DataMixed ==
  MakeData(<< MinRow(1, "M1"), MinRow(2, "M2"), MinRow(3, "M3"), MinRow(4, "M4") >>,
           << ProjRow(1, "M1", 100), ProjRow(2, "M2", 300), ProjRow(3, "M2", 0),
              ProjRow(4, "M3", 50), ProjRow(5, "M1", 20), ProjRow(6, "M3", 0),
              ProjRow(7, "M4", 0) >>,
           << SpendRow(1, "R1", << Pay(1, 80), Pay(2, 100) >>),
              SpendRow(2, "R2", << Pay(2, 50), Pay(5, 10) >>),
              SpendRow(3, SONOTA, << Pay(2, 40), Pay(3, 30), Pay(1, 5) >>),
              SpendRow(4, "R3", << Pay(3, 20) >>) >>)

\* the scenario of the specification: A = 100 (one project paying R1 80),
\* B = 50 (one project paying the reserved name 50), C = 10
DataScenario ==
  MakeData(<< MinRow(1, "M1"), MinRow(2, "M2"), MinRow(3, "M3") >>,
           << ProjRow(1, "M1", 100), ProjRow(2, "M2", 50), ProjRow(3, "M3", 10) >>,
           << SpendRow(1, "R1", << Pay(1, 80) >>),
              SpendRow(2, SONOTA, << Pay(2, 50) >>) >>)

\* balanced budgets and spendings, ties in every ranking, the reserved name
\* as the largest payee, two records with the same recipient name
DataTies ==
  MakeData(<< MinRow(1, "M1"), MinRow(2, "M2") >>,
           << ProjRow(1, "M1", 60), ProjRow(2, "M2", 60), ProjRow(3, "M1", 60),
              ProjRow(4, "M2", 60) >>,
           << SpendRow(1, "R1", << Pay(1, 30), Pay(2, 30) >>),
              SpendRow(2, "R2", << Pay(3, 30), Pay(4, 10) >>),
              SpendRow(3, SONOTA, << Pay(1, 30), Pay(4, 50) >>),
              SpendRow(4, "R2", << Pay(3, 30), Pay(2, 30) >>) >>)

DataSets == {DataMixed, DataScenario, DataTies}

\* a ministry of four paying projects, so that a page of one project has
\* projects before it and two after it; every project after the first page
\* pays a kept recipient, the reserved name and some other recipient
DataPages ==
  MakeData(<< MinRow(1, "M1"), MinRow(2, "M2") >>,
           << ProjRow(1, "M1", 90), ProjRow(2, "M1", 60), ProjRow(3, "M1", 30),
              ProjRow(4, "M1", 10), ProjRow(5, "M2", 40) >>,
           << SpendRow(1, "R1", << Pay(1, 50), Pay(2, 20), Pay(3, 10) >>),
              SpendRow(2, "R2", << Pay(2, 30), Pay(3, 5), Pay(5, 25) >>),
              SpendRow(3, SONOTA, << Pay(1, 10), Pay(3, 8), Pay(4, 4) >>),
              SpendRow(4, "R3", << Pay(4, 6), Pay(1, 7) >>) >>)

\* the stores of the one-call specification
GraphDataSets == DataSets \cup {DataPages}

-----------------------------------------------------------------------------
(* Requests                                                                *)

MaxLimit == 2
MaxLevel == 1
MaxOffset == 1
MaxRequests == 2

Limits == 1..MaxLimit
Offsets == 1..MaxOffset
Levels == 0..MaxLevel

\* names that match a record of every store above, and one that matches none
TargetMinistries == {"M1", "M2", "M3", "M9"}
TargetProjects == {"P1", "P2", "P3", "P4", "P9"}
TargetRecipients == {"R1", "R2", SONOTA, "R9"}

\* the options object route.ts builds (every numeric field set)
Options(ml, pl, sl, dl, pdl, tm, tp, tr) ==
  [ministryOffset |-> 0, projectOffset |-> 0, projectDrilldownLevel |-> pdl,
   ministryLimit |-> ml, projectLimit |-> pl, spendingLimit |-> sl,
   targetMinistryName |-> tm, targetProjectName |-> tp, targetRecipientName |-> tr,
   drilldownLevel |-> dl]

GlobalRequests ==
  {Options(ml, MaxLimit, sl, dl, 0, "", "", "") : ml \in Limits, sl \in Limits, dl \in Levels}
MinistryRequests ==
  {Options(MaxLimit, pl, c[1], 0, c[2], tm, "", "") :
     pl \in Limits, c \in Limits \X Levels, tm \in TargetMinistries}
ProjectRequests ==
  {Options(MaxLimit, MaxLimit, sl, 0, 0, "", tp, "") : sl \in Limits, tp \in TargetProjects}
RecipientRequests ==
  {Options(ml, pl, MaxLimit, 0, c[1], "", "", c[2]) :
     ml \in Limits, pl \in Limits, c \in Levels \X TargetRecipients}

\* the narrower requests of the service-level specification
ServiceGlobalRequests == {o \in GlobalRequests : o.spendingLimit = 1 /\ o.drilldownLevel = 0}
ServiceMinistryRequests ==
  {o \in MinistryRequests : /\ o.projectLimit = 1 /\ o.spendingLimit = 1
                            /\ o.projectDrilldownLevel = 0
                            /\ o.targetMinistryName \in {"M2", "M9"}}
ServiceProjectRequests ==
  {o \in ProjectRequests : o.spendingLimit = 1 /\ o.targetProjectName \in {"P1", "P9"}}
ServiceRecipientRequests ==
  {o \in RecipientRequests : /\ o.ministryLimit = MaxLimit /\ o.projectLimit = MaxLimit
                             /\ o.projectDrilldownLevel = 0
                             /\ o.targetRecipientName \in {"R1", "R9"}}

\* options objects that leave fields out (every field of GenerateOptions is
\* optional, and the parameter itself defaults to {})
OmittingRequests ==
  {<<>>,
   [targetMinistryName |-> "M2"],
   [targetRecipientName |-> "R1", projectLimit |-> 3]}

\* the same requests with every field passed
SpelledRequests ==
  {Options(3, 3, 5, 0, 0, "", "", ""),
   Options(3, 3, 5, 0, 0, "M2", "", ""),
   Options(3, 3, 5, 0, 0, "", "", "R1")}

ServiceRequests ==
  ServiceGlobalRequests \cup ServiceMinistryRequests \cup ServiceProjectRequests
    \cup ServiceRecipientRequests \cup OmittingRequests \cup SpelledRequests

\* Ministry and Recipient requests that pass the deprecated projectOffset
OffsetRequests ==
  {[Options(MaxLimit, pl, 1, 0, c[1], c[2], "", "") EXCEPT !.projectOffset = c[3]] :
     pl \in Limits, c \in Levels \X {"M1", "M2"} \X Offsets}
    \cup {[Options(MaxLimit, pl, MaxLimit, 0, c[1], "", "", c[2])
             EXCEPT !.projectOffset = c[3]] :
           pl \in Limits, c \in Levels \X {"R1", SONOTA} \X Offsets}

\* requests that set more than one target name (the route passes the
\* ministry, project and recipient parameters independently)
MultiTargetRequests ==
  {Options(MaxLimit, MaxLimit, 1, 0, 0, c[1], c[2], c[3]) :
     c \in {<<"M1", "P1", "">>, <<"M2", "P1", "">>, <<"M1", "", "R1">>,
            <<"", "P1", "R1">>, <<"M1", "P1", "R1">>}}

AllRequests ==
  GlobalRequests \cup MinistryRequests \cup ProjectRequests \cup RecipientRequests
    \cup OffsetRequests \cup OmittingRequests \cup SpelledRequests
    \cup MultiTargetRequests

-----------------------------------------------------------------------------
(* The state machine                                                       *)

NoCall == Call(getCacheKey(<<>>), FALSE, FALSE, FALSE, FALSE, "", NoEnvelope, EmptySelection)

\* the model state after a call: the program state it left, the call record,
\* and the first graph returned for each key
Observed(st, r) ==
  [file |-> st.file,
   fileOK |-> st.fileOK,
   cachedData |-> r.cachedData,
   resultCache |-> r.resultCache,
   last |-> r.call,
   hist |-> IF r.call.error = "" /\ ~MapHas(st.hist, r.call.key)
            THEN Append(st.hist, <<r.call.key, r.call.envelope.sankey>>)
            ELSE st.hist]

\* one call of generateSankeyData on the whole model state
Serve(st, options) ==
  Observed(st, generateSankeyData([cachedData |-> st.cachedData,
                                   resultCache |-> st.resultCache],
                                  st.file, st.fileOK, options))

\* the process right after start: nothing loaded, nothing cached
Started(data, ok) ==
  [file |-> data, fileOK |-> ok, cachedData |-> <<>>, resultCache |-> <<>>,
   last |-> NoCall, hist |-> <<>>]

\* n earlier Project-view calls with n distinct keys (ministryOffset 1..n)
Fillers(n) ==
  [i \in 1..n |-> [targetProjectName |-> "P1", ministryOffset |-> i]]

\* the calls served before the initial state: none, enough to leave the cache
\* one short of its limit, or one recipient request followed by that many
WarmUps ==
  {<<>>, Fillers(CACHE_SIZE_LIMIT - 1)}
    \cup {<<o>> \o Fillers(CACHE_SIZE_LIMIT - 1) : o \in ServiceRecipientRequests}

StateIs(st) ==
  /\ file = st.file
  /\ fileOK = st.fileOK
  /\ cachedData = st.cachedData
  /\ resultCache = st.resultCache
  /\ last = st.last
  /\ hist = st.hist

Current ==
  [file |-> file, fileOK |-> fileOK, cachedData |-> cachedData,
   resultCache |-> resultCache, last |-> last, hist |-> hist]

Init ==
  /\ nreq = 0
  /\ \E data \in DataSets, ok \in BOOLEAN, w \in WarmUps :
       /\ (w = <<>> \/ ok)
       /\ StateIs(FoldSeq(Serve, Started(data, ok), w))
       /\ asked = IF w = <<>> THEN <<>> ELSE w[Len(w)]

Becomes(st) ==
  /\ file' = st.file
  /\ fileOK' = st.fileOK
  /\ cachedData' = st.cachedData
  /\ resultCache' = st.resultCache
  /\ last' = st.last
  /\ hist' = st.hist

\* a caller invokes generateSankeyData(options), options drawn from S
Request(S) ==
  \E options \in S :
    /\ Becomes(Serve(Current, options))
    /\ asked' = options
    /\ nreq' = nreq + 1

\* the data file is put in place (scripts/decompress-data.sh) or goes away
FileRestored ==
  /\ ~fileOK
  /\ fileOK' = TRUE
  /\ UNCHANGED <<file, cachedData, resultCache, last, hist, asked, nreq>>

FileLost ==
  /\ fileOK
  /\ fileOK' = FALSE
  /\ UNCHANGED <<file, cachedData, resultCache, last, hist, asked, nreq>>

Next ==
  \/ nreq < MaxRequests /\ Request(ServiceRequests)
  \/ FileRestored
  \/ FileLost

Spec == Init /\ [][Next]_vars

\* one call on a freshly started process, over the wide request sets
InitGraph ==
  /\ nreq = 0
  /\ \E data \in GraphDataSets : StateIs(Started(data, TRUE))
  /\ asked = <<>>

NextGraph == nreq = 0 /\ Request(AllRequests)

SpecGraph == InitGraph /\ [][NextGraph]_vars

-----------------------------------------------------------------------------
(* Properties                                                              *)

\* the last call returned an envelope
Returned == nreq > 0 /\ last.error = ""
Graph == last.envelope.sankey
ViewMode == last.envelope.presetType

Abs(n) == IF n < 0 THEN -n ELSE n

\* the sentinel 0.001 counts as 0
AsZero(v) == IF v = DUMMY THEN 0 ELSE v

OutLinks(g, id) == SelectSeq(g.links, LAMBDA l : l.source = id)
InLinks(g, id) == SelectSeq(g.links, LAMBDA l : l.target = id)
OutSum(g, id) == SumSeq(MapSeq(OutLinks(g, id), LAMBDA l : AsZero(l.value)))

FlowConserved(g) ==
  \A i \in 1..Len(g.nodes) :
    OutLinks(g, g.nodes[i].id) # <<>>
      => Abs(OutSum(g, g.nodes[i].id) - AsZero(g.nodes[i].value)) <= Yen(1)

\* C1: in every view mode, every emitted node that is the source of an emitted
\* edge has outgoing edge values summing to its own value within 1 unit, the
\* sentinel 0.001 counted as 0.
C1_FlowConservation == Returned => FlowConserved(Graph)

\* the first graph returned for the key of the last call
FirstGraph == MapGet(hist, last.key)

\* C2: two requests with the same normalized parameters return equal node
\* lists and edge lists (same elements, same order), whatever ran between
\* them, Global requests and evictions included.
C2_SameKeySameGraph == Returned => Graph = FirstGraph

\* C3: no request changes the record store: once loaded, its ministries,
\* projects and recipients are those of the file, in the file's order.
C3_StoreNeverMutated == cachedData # <<>> => cachedData[1] = file

RecipientFocused(key) == key.targetRecipientName # ""
ProjectFocused(key) == key.targetRecipientName = "" /\ key.targetProjectName # ""
MinistryFocused(key) ==
  /\ key.targetRecipientName = ""
  /\ key.targetProjectName = ""
  /\ key.targetMinistryName # ""

MatchesRecipient(name) ==
  \E i \in 1..Len(file.spendings) : file.spendings[i].spendingName = name
MatchesProject(name) ==
  \E i \in 1..Len(file.budgets) : file.budgets[i].projectName = name
MatchesMinistry(name) ==
  \E i \in 1..Len(file.ministries) : file.ministries[i].name = name

\* C4: a Recipient-focused request whose name matches no recipient record
\* fails with an error; it returns no envelope and none is stored for its key.
C4_RecipientNotFound ==
  nreq > 0 /\ RecipientFocused(last.key) /\ ~MatchesRecipient(last.key.targetRecipientName)
    => last.error # "" /\ ~MapHas(resultCache, last.key)

UnknownProjectOrMinistry(key) ==
  \/ ProjectFocused(key) /\ ~MatchesProject(key.targetProjectName)
  \/ MinistryFocused(key) /\ ~MatchesMinistry(key.targetMinistryName)

\* C5: a Project-focused request naming no project and a Ministry-focused
\* request naming no ministry fail with an error, return no envelope, and
\* leave the result cache as it was before the request.
C5_NotFoundLeavesCache ==
  [][nreq' # nreq /\ UnknownProjectOrMinistry(last'.key)
       => /\ last'.error # ""
          /\ last'.envelope = NoEnvelope
          /\ resultCache' = resultCache]_vars

\* a not-found request was served while the cache held results
C5_Witness ==
  /\ nreq > 0
  /\ UnknownProjectOrMinistry(last.key)
  /\ last.error \in {"Project not found", "Ministry not found"}
  /\ resultCache # <<>>

Incident(g, id) == OutLinks(g, id) # <<>> \/ InLinks(g, id) # <<>>

\* C6: in every view mode every emitted node is the source or the target of
\* an emitted edge.
C6_NoIsolatedNode ==
  Returned => \A i \in 1..Len(Graph.nodes) : Incident(Graph, Graph.nodes[i].id)

\* C7: in every view mode every emitted edge has a value greater than 0.
C7_EdgesPositive ==
  Returned => \A i \in 1..Len(Graph.links) : Graph.links[i].value > 0

HasNode(g, id) == \E i \in 1..Len(g.nodes) : g.nodes[i].id = id
NodeValue(g, id) == (CHOOSE n \in SeqToSet(g.nodes) : n.id = id).value

\* a kept project with budget 0 and no spending: its budget link from the
\* ministry is computed as 0 and is not among the emitted edges
C7_Witness ==
  /\ Returned
  /\ ViewMode = "ministry"
  /\ \E i \in 1..Len(last.selection.topProjects) :
       LET p == last.selection.topProjects[i]
       IN /\ p.totalBudget = 0
          /\ p.totalSpendingAmount = 0
          /\ HasNode(Graph, Id("project-budget-", p.projectId))
          /\ InLinks(Graph, Id("project-budget-", p.projectId)) = <<>>

\* the projects in the scope of the last request
ScopeProjects ==
  IF ViewMode = "project"
  THEN SelectSeq(file.budgets, LAMBDA b : b.projectName = last.key.targetProjectName)
  ELSE IF ViewMode = "ministry"
  THEN SelectSeq(file.budgets, LAMBDA b : b.ministry = last.key.targetMinistryName)
  ELSE file.budgets

ScopeProjectIds == {ScopeProjects[i].projectId : i \in 1..Len(ScopeProjects)}

\* what the recipient record s receives from the projects in scope
ScopeAmount(s) ==
  SumSeq(MapSeq(SelectSeq(s.projects, LAMBDA sp : sp.projectId \in ScopeProjectIds),
                LAMBDA sp : sp.amount))

\* contributions in scope to recipients with the reserved name
ScopeOtherNamed ==
  SumSeq(MapSeq(SelectSeq(file.spendings, LAMBDA s : s.spendingName = SONOTA), ScopeAmount))

\* C8: in Global, Ministry and Project mode the reserved-name node is emitted
\* whenever the scope of the view holds contributions to recipients with the
\* reserved name, and its value is the sum of those contributions.
C8_ReservedNode ==
  Returned /\ ViewMode \in {"global", "ministry", "project"} /\ ScopeOtherNamed > 0
    => /\ HasNode(Graph, "recipient-other-named")
       /\ NodeValue(Graph, "recipient-other-named") = ScopeOtherNamed

\* C9: in Global, Ministry and Project mode no recipient with the reserved
\* name is in the kept recipient list.
C9_ReservedNeverKept ==
  Returned /\ ViewMode \in {"global", "ministry", "project"}
    => \A i \in 1..Len(last.selection.topSpendings) :
         last.selection.topSpendings[i].spendingName # SONOTA

\* a Global request keeping one recipient while a reserved-name record in
\* scope receives more than the kept one
C9_Witness ==
  /\ Returned
  /\ ViewMode = "global"
  /\ Len(last.selection.topSpendings) = 1
  /\ \E i \in 1..Len(file.spendings) :
       /\ file.spendings[i].spendingName = SONOTA
       /\ ScopeAmount(file.spendings[i]) > ScopeAmount(last.selection.topSpendings[1])

\* C10: a request whose key has an entry in the result cache returns that
\* entry without reading the file, running selectData or buildSankeyData, and
\* leaves the store and the cache as they are.
C10_CacheHit ==
  [][nreq' # nreq /\ MapHas(resultCache, last'.key)
       => /\ last'.hit
          /\ last'.envelope = CacheGet(resultCache, last'.key)
          /\ ~last'.readFile /\ ~last'.ranSelect /\ ~last'.ranBuild
          /\ cachedData' = cachedData
          /\ resultCache' = resultCache]_vars

\* a request was answered from the cache
C10_Witness == nreq > 0 /\ last.hit /\ last.envelope = CacheGet(resultCache, last.key)

\* C11: after any sequence of requests the result cache holds at most
\* CACHE_SIZE_LIMIT entries, and no key twice
C11_CacheBounded ==
  /\ Len(resultCache) <= CACHE_SIZE_LIMIT
  /\ \A i, j \in 1..Len(resultCache) :
       resultCache[i][1] = resultCache[j][1] => i = j

\* a miss was stored while the cache was full: more keys have been served
\* than the cache holds
C11_Witness ==
  /\ nreq > 0 /\ ~last.hit /\ last.error = ""
  /\ Len(resultCache) = CACHE_SIZE_LIMIT
  /\ Len(hist) > CACHE_SIZE_LIMIT

\* C12: a miss that completes while the cache is full removes exactly the
\* entry inserted earliest (the first of the Map's insertion order), keeps
\* every other entry in order and adds the new one last; a hit leaves the
\* cache and its order as they were, so it never changes what is evicted next
C12_FifoEviction ==
  [][nreq' = nreq + 1 =>
       /\ last'.hit => resultCache' = resultCache
       /\ (~last'.hit /\ last'.error = "" /\ Len(resultCache) = CACHE_SIZE_LIMIT)
            => resultCache' = Append(Tail(resultCache),
                                     <<last'.key, last'.envelope>>)]_vars

\* a miss completed on a full cache: the key served first of all is gone,
\* the one served second is still there, and the new key is the newest entry
C12_Witness ==
  /\ nreq > 0 /\ ~last.hit /\ last.error = ""
  /\ Len(hist) > CACHE_SIZE_LIMIT
  /\ ~MapHas(resultCache, hist[1][1])
  /\ MapHas(resultCache, hist[2][1])
  /\ resultCache[Len(resultCache)][1] = last.key

\* the defaults the specification states for omitted fields
StatedDefaults ==
  [ministryOffset |-> 0, projectOffset |-> 0, projectDrilldownLevel |-> 0,
   ministryLimit |-> 3, projectLimit |-> 3, spendingLimit |-> 5,
   drilldownLevel |-> 0, targetMinistryName |-> "", targetProjectName |-> "",
   targetRecipientName |-> ""]

\* the options with every omitted field passed at its stated default
WithDefaults(o) ==
  [f \in DOMAIN StatedDefaults |-> IF f \in DOMAIN o THEN o[f] ELSE StatedDefaults[f]]

Omits(o) == DOMAIN o # DOMAIN StatedDefaults

\* C13: a call that omits fields does exactly what the call passing the
\* stated defaults for them would have done in the same program state (same
\* key, same outcome, same cache afterwards), and two consecutive calls that
\* differ only in omitting a field or passing its default share one cache
\* entry: the second is a hit returning the first one's envelope
C13_DefaultsShared ==
  [][nreq' = nreq + 1 =>
       /\ Serve(Current, WithDefaults(asked')) = Serve(Current, asked')
       /\ last'.key = WithDefaults(asked')
       /\ (nreq > 0 /\ last.error = "" /\ WithDefaults(asked') = WithDefaults(asked))
            => /\ last'.hit
               /\ last'.envelope = last.envelope
               /\ resultCache' = resultCache]_vars

\* a call that omits fields was answered from the cache, under the key of
\* the fully spelled options
C13_Witness ==
  /\ nreq > 0 /\ last.hit /\ Omits(asked)
  /\ last.key = getCacheKey(WithDefaults(asked))
  /\ last.envelope = CacheGet(resultCache, WithDefaults(asked))

\* C14: a call reads the backing file only while no snapshot is held, and a
\* miss without a snapshot always reads it; once a snapshot is held no later
\* call reads the file and the snapshot stays, whether or not the file is
\* still there; a failed read fails the call with the data-source error
\* before any selection, keeps no snapshot and writes no cache entry
C14_LoadOnce ==
  [][nreq' = nreq + 1 =>
       /\ last'.readFile <=> (cachedData = <<>> /\ ~last'.hit)
       /\ cachedData # <<>> => cachedData' # <<>>
       /\ (last'.readFile /\ fileOK) => cachedData' # <<>>
       /\ (last'.readFile /\ ~fileOK)
            => /\ last'.error = "Failed to load data source"
               /\ ~last'.ranSelect /\ ~last'.ranBuild
               /\ cachedData' = <<>>
               /\ resultCache' = resultCache]_vars

\* a call was computed from the snapshot while the file was gone, so it
\* cannot have read the file
C14_Witness ==
  /\ nreq > 0 /\ ~fileOK /\ cachedData # <<>>
  /\ ~last.hit /\ last.ranBuild /\ ~last.readFile /\ last.error = ""

\* position of the i-th ministry of the record store when ranked by
\* totalBudget descending, ties in store order
MinistryRank(i) ==
  1 + Cardinality({j \in 1..Len(file.ministries) :
                     \/ file.ministries[j].totalBudget > file.ministries[i].totalBudget
                     \/ /\ file.ministries[j].totalBudget = file.ministries[i].totalBudget
                        /\ j < i})

KeptMinistryNames ==
  {last.selection.topMinistries[i].name : i \in 1..Len(last.selection.topMinistries)}

GlobalComputed == Returned /\ ~last.hit /\ ViewMode = "global"

\* C15: in Global mode with ministryLimit K and drilldownLevel N the kept
\* ministries are exactly those ranked N*K+1 .. (N+1)*K by totalBudget
\* descending, ties in record-store order, each kept once
C15_GlobalMinistryPage ==
  GlobalComputed =>
    LET K == last.key.ministryLimit
        N == last.key.drilldownLevel
        page == {i \in 1..Len(file.ministries) :
                   MinistryRank(i) \in (N * K + 1)..((N + 1) * K)}
    IN /\ KeptMinistryNames = {file.ministries[i].name : i \in page}
       /\ Len(last.selection.topMinistries) = Cardinality(page)

\* the second page of one ministry on a store whose two ministries tie: the
\* ministry that comes second in the store is the one kept
C15_Witness ==
  /\ GlobalComputed
  /\ last.key.ministryLimit = 1 /\ last.key.drilldownLevel = 1
  /\ Len(file.ministries) = 2
  /\ file.ministries[1].totalBudget = file.ministries[2].totalBudget
  /\ KeptMinistryNames = {file.ministries[2].name}

TotalMinistryBudget ==
  SumSeq([i \in 1..Len(file.ministries) |-> file.ministries[i].totalBudget])

KeptMinistryBudget ==
  SumSeq([i \in 1..Len(last.selection.topMinistries) |->
            last.selection.topMinistries[i].totalBudget])

\* total budget of the ministries whose rank lies in lo .. hi
RankedBudget(lo, hi) ==
  SumSeq([i \in 1..Len(file.ministries) |->
            IF MinistryRank(i) \in lo..hi
            THEN file.ministries[i].totalBudget ELSE 0])

\* C16 as stated: in Global mode, for any ministryLimit and drilldownLevel,
\* the leftover-ministries value is the total budget of all ministries minus
\* the budgets of the kept ministries
C16_LeftoverIsTotalMinusKept ==
  GlobalComputed =>
    last.selection.otherMinistriesBudget = TotalMinistryBudget - KeptMinistryBudget

\* C16 amended: in Global mode with ministryLimit K and drilldownLevel N the
\* leftover-ministries value is the total budget of the ministries ranked
\* after the kept page, that is the total minus the kept ministries minus
\* the N*K ministries of the earlier pages; for N = 0 it is the total minus
\* the kept ministries
C16_LeftoverIsBeyondPage ==
  GlobalComputed =>
    LET K == last.key.ministryLimit
        N == last.key.drilldownLevel
    IN /\ last.selection.otherMinistriesBudget
            = RankedBudget((N + 1) * K + 1, Len(file.ministries))
       /\ last.selection.otherMinistriesBudget
            = TotalMinistryBudget - KeptMinistryBudget - RankedBudget(1, N * K)
       /\ N = 0 => last.selection.otherMinistriesBudget
                     = TotalMinistryBudget - KeptMinistryBudget

\* a second page with a positive leftover: the ministries of the first page
\* have budget and are in neither the kept set nor the leftover
C16_Witness ==
  /\ GlobalComputed
  /\ last.key.drilldownLevel = 1
  /\ last.selection.otherMinistriesBudget > 0
  /\ RankedBudget(1, last.key.ministryLimit) > 0
  /\ last.selection.otherMinistriesBudget
       < TotalMinistryBudget - KeptMinistryBudget

KeptProjectIds ==
  {last.selection.topProjects[i].projectId : i \in 1..Len(last.selection.topProjects)}

\* positions in the store of the projects of ministry m
ProjectsOf(m) == {i \in 1..Len(file.budgets) : file.budgets[i].ministry = m}

\* rank of the i-th project of the store among those at positions P, by
\* key descending, ties in store order
RankAmong(P, key(_), i) ==
  1 + Cardinality({j \in P : key(j) > key(i) \/ (key(j) = key(i) /\ j < i)})

PaidToKept(i) ==
  SumSeq([r \in 1..Len(last.selection.topSpendings) |->
            SumSeq([e \in 1..Len(last.selection.topSpendings[r].projects) |->
                      IF last.selection.topSpendings[r].projects[e].projectId
                           = file.budgets[i].projectId
                      THEN last.selection.topSpendings[r].projects[e].amount
                      ELSE 0])])

\* the projects of the kept ministries that pay a kept recipient
PayingProjects ==
  {i \in 1..Len(file.budgets) :
     file.budgets[i].ministry \in KeptMinistryNames /\ PaidToKept(i) > 0}

MinistryComputed == Returned /\ ~last.hit /\ ViewMode = "ministry"

\* ids of the named ministry's projects whose rank by totalBudget
\* descending, ties in store order, lies in lo .. hi
MinistryPage(lo, hi) ==
  {file.budgets[i].projectId :
     i \in {i \in ProjectsOf(last.key.targetMinistryName) :
              RankAmong(ProjectsOf(last.key.targetMinistryName),
                        LAMBDA j : file.budgets[j].totalBudget, i) \in lo..hi}}

\* C18 as stated: in Ministry mode with projectLimit K and
\* projectDrilldownLevel N the kept projects are exactly the named
\* ministry's projects ranked N*K+1 .. (N+1)*K by totalBudget descending
C18_MinistryProjectPage ==
  MinistryComputed =>
    KeptProjectIds
      = MinistryPage(last.key.projectDrilldownLevel * last.key.projectLimit + 1,
                     (last.key.projectDrilldownLevel + 1) * last.key.projectLimit)

\* the project offset in force: N*K for projectDrilldownLevel N > 0, and the
\* request's projectOffset for N = 0
OffsetInForce ==
  IF last.key.projectDrilldownLevel > 0
  THEN last.key.projectDrilldownLevel * last.key.projectLimit
  ELSE last.key.projectOffset

\* C18 amended: in Ministry mode with projectLimit K the kept projects are
\* exactly the named ministry's projects ranked o+1 .. o+K by totalBudget
\* descending, ties in store order, each once, where o = N*K for
\* projectDrilldownLevel N > 0 and o is the request's projectOffset for
\* N = 0; so they are the ranks N*K+1 .. (N+1)*K whenever N > 0 or
\* projectOffset is 0
C18_MinistryProjectPageFromOffset ==
  MinistryComputed =>
    /\ KeptProjectIds
         = MinistryPage(OffsetInForce + 1, OffsetInForce + last.key.projectLimit)
    /\ Len(last.selection.topProjects) = Cardinality(KeptProjectIds)
    /\ (last.key.projectDrilldownLevel > 0 \/ last.key.projectOffset = 0)
         => KeptProjectIds
              = MinistryPage(last.key.projectDrilldownLevel * last.key.projectLimit + 1,
                             (last.key.projectDrilldownLevel + 1) * last.key.projectLimit)

\* one project per page, no drilldown level, projectOffset 1, on a ministry
\* whose two projects tie: the project kept is the second of the ranking,
\* the one later in the store, not the first
C18_Witness ==
  /\ MinistryComputed
  /\ last.key.projectDrilldownLevel = 0 /\ last.key.projectOffset = 1
  /\ last.key.projectLimit = 1
  /\ \E i, j \in ProjectsOf(last.key.targetMinistryName) :
       /\ i < j
       /\ file.budgets[i].totalBudget = file.budgets[j].totalBudget
       /\ KeptProjectIds = {file.budgets[j].projectId}

RecipientComputed ==
  /\ Returned /\ ~last.hit /\ ViewMode = "spending"
  /\ last.selection.topSpendings # <<>>

\* what the i-th project of the store pays to the named recipient, over
\* every spending record of that name
PaidToTarget(i) ==
  SumSeq([r \in 1..Len(file.spendings) |->
            IF file.spendings[r].spendingName = last.key.targetRecipientName
            THEN SumSeq([e \in 1..Len(file.spendings[r].projects) |->
                           IF file.spendings[r].projects[e].projectId
                                = file.budgets[i].projectId
                           THEN file.spendings[r].projects[e].amount ELSE 0])
            ELSE 0])

\* the projects listed in a spending record of the named recipient
ContributingProjects ==
  {i \in 1..Len(file.budgets) :
     \E r \in 1..Len(file.spendings) :
       /\ file.spendings[r].spendingName = last.key.targetRecipientName
       /\ \E e \in 1..Len(file.spendings[r].projects) :
            file.spendings[r].projects[e].projectId = file.budgets[i].projectId}

ContributingMinistries == {file.budgets[i].ministry : i \in ContributingProjects}

\* what ministry m pays to the named recipient through all its projects
MinistryPaidToTarget(m) ==
  SumSeq([i \in 1..Len(file.budgets) |->
            IF i \in ContributingProjects /\ file.budgets[i].ministry = m
            THEN PaidToTarget(i) ELSE 0])

\* C19: in Recipient mode with ministryLimit M, projectLimit K and project
\* offset o, the kept ministries are M of the contributing ministries (all
\* of them if fewer) and none left out contributes more than one kept; the
\* kept projects are exactly the contributing projects ranked o+1 .. o+K by
\* contribution (ties in store order) whose ministry is kept
C19_RecipientTwoStage ==
  RecipientComputed =>
    /\ KeptMinistryNames \subseteq ContributingMinistries
    /\ Cardinality(KeptMinistryNames)
         = Min(last.key.ministryLimit, Cardinality(ContributingMinistries))
    /\ Len(last.selection.topMinistries) = Cardinality(KeptMinistryNames)
    /\ \A k \in KeptMinistryNames : \A n \in ContributingMinistries \ KeptMinistryNames :
         MinistryPaidToTarget(k) >= MinistryPaidToTarget(n)
    /\ KeptProjectIds
         = {file.budgets[i].projectId :
              i \in {i \in ContributingProjects :
                       /\ RankAmong(ContributingProjects, PaidToTarget, i)
                            \in (OffsetInForce + 1)..(OffsetInForce + last.key.projectLimit)
                       /\ file.budgets[i].ministry \in KeptMinistryNames}}
    /\ Len(last.selection.topProjects) = Cardinality(KeptProjectIds)

\* a page holding a project of a ministry that is not kept: the project is
\* on the page by rank and is dropped, while another project of the page
\* is kept
C19_Witness ==
  /\ RecipientComputed
  /\ KeptProjectIds # {}
  /\ \E i \in ContributingProjects :
       /\ RankAmong(ContributingProjects, PaidToTarget, i)
            \in (OffsetInForce + 1)..(OffsetInForce + last.key.projectLimit)
       /\ file.budgets[i].ministry \notin KeptMinistryNames
       /\ file.budgets[i].projectId \notin KeptProjectIds

\* the sum of PaidToTarget over the store positions in P
PaidBy(P) ==
  SumSeq([i \in 1..Len(file.budgets) |-> IF i \in P THEN PaidToTarget(i) ELSE 0])

KeptContributing ==
  {i \in ContributingProjects : file.budgets[i].projectId \in KeptProjectIds}

\* contributing projects that are not kept although their ministry is
LeftoverInKeptMinistries ==
  {i \in ContributingProjects :
     /\ file.budgets[i].projectId \notin KeptProjectIds
     /\ file.budgets[i].ministry \in KeptMinistryNames}

\* contributing projects of ministries that are not kept
LeftoverInOtherMinistries ==
  {i \in ContributingProjects : file.budgets[i].ministry \notin KeptMinistryNames}

RecipientEdgesFrom(id) ==
  SelectSeq(Graph.links, LAMBDA l : l.source = id /\ l.target = "recipient-root")

\* C20: in Recipient mode every contributing project is counted in exactly
\* one place: a kept project paying a positive amount has exactly one edge
\* into the recipient, carrying its amount; the leftover-projects total is
\* the sum over the unkept projects of kept ministries; the
\* leftover-ministries total is the sum over the projects of unkept
\* ministries; the selection's three parts, and the edges into the
\* recipient, each sum to the recipient's total over all projects
C20_RecipientPartition ==
  RecipientComputed =>
    /\ \A i \in KeptContributing :
         PaidToTarget(i) > 0 =>
           /\ Len(RecipientEdgesFrom(Id("project-spending-", file.budgets[i].projectId))) = 1
           /\ RecipientEdgesFrom(Id("project-spending-", file.budgets[i].projectId))[1].value
                = PaidToTarget(i)
    /\ KeptProjectIds = {file.budgets[i].projectId : i \in KeptContributing}
    /\ last.selection.otherProjectsSpendingInSpendingView
         = PaidBy(LeftoverInKeptMinistries)
    /\ last.selection.otherMinistriesSpendingInSpendingView
         = PaidBy(LeftoverInOtherMinistries)
    /\ PaidBy(KeptContributing)
         + last.selection.otherProjectsSpendingInSpendingView
         + last.selection.otherMinistriesSpendingInSpendingView
         = PaidBy(ContributingProjects)
    /\ SumSeq(MapSeq(InLinks(Graph, "recipient-root"), LAMBDA l : l.value))
         = PaidBy(ContributingProjects)
    /\ Len(InLinks(Graph, "recipient-root"))
         = Cardinality({i \in KeptContributing : PaidToTarget(i) > 0})
             + (IF PaidBy(LeftoverInKeptMinistries) > 0 THEN 1 ELSE 0)
             + (IF PaidBy(LeftoverInOtherMinistries) > 0 THEN 1 ELSE 0)

\* all three places are in use at once: a kept project, a positive leftover
\* within the kept ministries and a positive leftover from other ministries
C20_Witness ==
  /\ RecipientComputed
  /\ KeptContributing # {}
  /\ last.selection.otherProjectsSpendingInSpendingView > 0
  /\ last.selection.otherMinistriesSpendingInSpendingView > 0
  /\ Len(InLinks(Graph, "recipient-root")) = Cardinality(KeptContributing) + 2

Computed == Returned /\ ~last.hit

Smaller(a, b) == IF a <= b THEN a ELSE b

\* the emitted edges from the project-budget node of project id to its
\* project-spending node
BudgetToSpendingEdges(id) ==
  SelectSeq(Graph.links, LAMBDA l : /\ l.source = Id("project-budget-", id)
                                    /\ l.target = Id("project-spending-", id))

\* kept projects with at least one recipient that are not the zero-budget
\* sentinel case (budget 0 with spending)
PlainKeptProjects ==
  {p \in SeqToSet(last.selection.topProjects) :
     /\ Len(p.spendingIds) > 0
     /\ ~(p.totalBudget = 0 /\ p.totalSpendingAmount > 0)}

PaidToSelected(p) ==
  SumSeq([r \in 1..Len(last.selection.topSpendings) |->
            SumSeq([e \in 1..Len(last.selection.topSpendings[r].projects) |->
                      IF last.selection.topSpendings[r].projects[e].projectId = p.projectId
                      THEN last.selection.topSpendings[r].projects[e].amount
                      ELSE 0])])

StandardComputed == Computed /\ ViewMode \in {"global", "ministry", "project"}

KeptRecipientIds ==
  {last.selection.topSpendings[i].spendingId : i \in 1..Len(last.selection.topSpendings)}

\* what project p pays according to the spending records of the store that
\* satisfy Q
PaidWhere(p, Q(_)) ==
  SumSeq([r \in 1..Len(file.spendings) |->
            IF Q(file.spendings[r])
            THEN SumSeq([e \in 1..Len(file.spendings[r].projects) |->
                           IF file.spendings[r].projects[e].projectId = p.projectId
                           THEN file.spendings[r].projects[e].amount ELSE 0])
            ELSE 0])

\* the amount of project p that belongs on an edge into recipient node id
RealContribution(p, id) ==
  IF id = "recipient-other-named"
  THEN PaidWhere(p, LAMBDA s : s.spendingName = SONOTA)
  ELSE IF id = "recipient-other-aggregated"
  THEN PaidWhere(p, LAMBDA s : s.spendingName # SONOTA /\ s.spendingId \notin KeptRecipientIds)
  ELSE PaidWhere(p, LAMBDA s : Id("recipient-", s.spendingId) = id)

\* kept projects with budget 0 and spending
SentinelProjects ==
  {p \in SeqToSet(last.selection.topProjects) :
     p.totalBudget = 0 /\ p.totalSpendingAmount > 0}

\* C22: in Global, Ministry and Project mode a kept project with totalBudget
\* 0 and totalSpendingAmount > 0 has a project-budget node of value 0.001,
\* exactly one edge into it and one edge from it, to its project-spending
\* node, both of value 0.001, while every edge from its project-spending
\* node carries the real amount the project pays to that recipient node
C22_ZeroBudgetSentinel ==
  StandardComputed =>
    \A p \in SentinelProjects :
      /\ HasNode(Graph, Id("project-budget-", p.projectId))
      /\ NodeValue(Graph, Id("project-budget-", p.projectId)) = DUMMY
      /\ Len(InLinks(Graph, Id("project-budget-", p.projectId))) = 1
      /\ InLinks(Graph, Id("project-budget-", p.projectId))[1].value = DUMMY
      /\ OutLinks(Graph, Id("project-budget-", p.projectId))
           = BudgetToSpendingEdges(p.projectId)
      /\ Len(BudgetToSpendingEdges(p.projectId)) = 1
      /\ BudgetToSpendingEdges(p.projectId)[1].value = DUMMY
      /\ OutLinks(Graph, Id("project-spending-", p.projectId)) # <<>>
      /\ \A i \in 1..Len(OutLinks(Graph, Id("project-spending-", p.projectId))) :
           LET l == OutLinks(Graph, Id("project-spending-", p.projectId))[i]
           IN /\ l.value = RealContribution(p, l.target)
              /\ l.value > DUMMY

\* a Global graph that keeps a zero-budget project with spending and one of
\* the recipients it pays
C22_Witness ==
  /\ StandardComputed /\ ViewMode = "global"
  /\ \E p \in SentinelProjects :
       \E i \in 1..Len(Graph.links) :
         /\ Graph.links[i].source = Id("project-spending-", p.projectId)
         /\ \E k \in KeptRecipientIds : Graph.links[i].target = Id("recipient-", k)

\* kept projects whose recipient list is empty
NoRecipientProjects ==
  {p \in SeqToSet(last.selection.topProjects) : Len(p.spendingIds) = 0}

NodesWithId(id) == SelectSeq(Graph.nodes, LAMBDA n : n.id = id)

\* C23: in Global, Ministry and Project mode a kept project with no
\* recipient has no project-spending node and no edge at one; its
\* project-budget node is emitted and its only outgoing edge is one edge of
\* value 0.001 to the node recipient-no-spending; that node has value 0, is
\* emitted once when such a project is kept and not at all otherwise, and
\* receives nothing but those edges
C23_NoSpendingDestination ==
  StandardComputed =>
    /\ \A p \in NoRecipientProjects :
         /\ ~HasNode(Graph, Id("project-spending-", p.projectId))
         /\ ~Incident(Graph, Id("project-spending-", p.projectId))
         /\ HasNode(Graph, Id("project-budget-", p.projectId))
         /\ OutLinks(Graph, Id("project-budget-", p.projectId))
              = << [source |-> Id("project-budget-", p.projectId),
                    target |-> "recipient-no-spending",
                    value |-> DUMMY] >>
    /\ Len(NodesWithId("recipient-no-spending"))
         = (IF NoRecipientProjects # {} THEN 1 ELSE 0)
    /\ \A i \in 1..Len(NodesWithId("recipient-no-spending")) :
         /\ NodesWithId("recipient-no-spending")[i].value = 0
         /\ NodesWithId("recipient-no-spending")[i].type = "recipient"
    /\ Len(InLinks(Graph, "recipient-no-spending")) = Cardinality(NoRecipientProjects)

\* a graph that keeps two projects without recipients, one of them with a
\* budget: both point at the one recipient-no-spending node
C23_Witness ==
  /\ StandardComputed
  /\ HasNode(Graph, "recipient-no-spending")
  /\ Cardinality(NoRecipientProjects) = 2
  /\ \E p \in NoRecipientProjects : p.totalBudget > 0
  /\ Len(InLinks(Graph, "recipient-no-spending")) = 2

Summary == last.envelope.summary

\* total budget of the projects of the store that are kept
KeptProjectBudget ==
  SumSeq([i \in 1..Len(file.budgets) |->
            IF file.budgets[i].projectId \in KeptProjectIds
            THEN file.budgets[i].totalBudget ELSE 0])

StoreBudget ==
  SumSeq([i \in 1..Len(file.budgets) |-> file.budgets[i].totalBudget])

\* C24: for every Global request the summary's selectedBudget is the total
\* budget of the kept projects, each counted once, and lies between 0 and
\* the summary's totalBudget, which is the total of the store; coverageRate,
\* held as the fraction num / den, equals selectedBudget / totalBudget * 100
\* and so lies between 0 and 100 (every store has a positive total budget)
C24_CoverageRate ==
  GlobalComputed =>
    /\ Summary.totalBudget = StoreBudget
    /\ Summary.totalBudget > 0
    /\ Summary.selectedBudget = KeptProjectBudget
    /\ Len(last.selection.topProjects) = Cardinality(KeptProjectIds)
    /\ 0 <= Summary.selectedBudget
    /\ Summary.selectedBudget <= Summary.totalBudget
    /\ Summary.coverageRate.den > 0
    /\ Summary.coverageRate.num = Summary.selectedBudget * 100
    /\ Summary.coverageRate.den = Summary.totalBudget
    /\ 0 <= Summary.coverageRate.num
    /\ Summary.coverageRate.num <= 100 * Summary.coverageRate.den

\* a Global answer whose kept projects cover part of the budget, not all
C24_Witness ==
  /\ GlobalComputed
  /\ 0 < Summary.selectedBudget
  /\ Summary.selectedBudget < Summary.totalBudget
  /\ Len(last.selection.topProjects) >= 2

StoreMinistryIds == {file.ministries[i].id : i \in 1..Len(file.ministries)}
StoreProjectIds == {file.budgets[i].projectId : i \in 1..Len(file.budgets)}
StoreSpendingIds == {file.spendings[i].spendingId : i \in 1..Len(file.spendings)}

\* the node ids the builder can emit, layer by layer
RootIds == {"total-budget"}
MinistryNodeIds ==
  {Id("ministry-budget-", n) : n \in StoreMinistryIds}
    \cup {"ministry-budget-other", "ministry-budget-other-spending-view"}
ProjectBudgetNodeIds ==
  {Id("project-budget-", n) : n \in StoreProjectIds}
    \cup {Id("project-budget-other-", n) : n \in StoreMinistryIds}
    \cup {"project-budget-other-global", "project-budget-other-spending-view",
          "project-budget-other-ministry-spending-view"}
ProjectSpendingNodeIds ==
  {Id("project-spending-", n) : n \in StoreProjectIds}
    \cup {Id("project-spending-other-", n) : n \in StoreMinistryIds}
    \cup {"project-spending-other-global", "project-spending-other-spending-view",
          "project-spending-other-ministry-spending-view"}
RecipientNodeIds ==
  {Id("recipient-", n) : n \in StoreSpendingIds}
    \cup {"recipient-root", "recipient-other-named", "recipient-other-aggregated",
          "recipient-no-spending"}

\* root 0, ministry 1, project-budget 2, project-spending 3, recipient 4;
\* -1 for an id of no layer
Layer(id) ==
  IF id \in RootIds THEN 0
  ELSE IF id \in MinistryNodeIds THEN 1
  ELSE IF id \in ProjectBudgetNodeIds THEN 2
  ELSE IF id \in ProjectSpendingNodeIds THEN 3
  ELSE IF id \in RecipientNodeIds THEN 4
  ELSE -1

\* C25: in every view mode each emitted edge leads from a node of one layer
\* to a node of a strictly later layer (root, ministry, project-budget,
\* project-spending, recipient), so the graph has no cycle; no recipient
\* node is the source of an edge, and no edge joins the reserved-name node
\* and the leftover-recipients node
C25_LayeredEdges ==
  Computed =>
    \A i \in 1..Len(Graph.links) :
      /\ Layer(Graph.links[i].source) >= 0
      /\ Layer(Graph.links[i].source) < Layer(Graph.links[i].target)
      /\ Layer(Graph.links[i].source) # 4
      /\ {Graph.links[i].source, Graph.links[i].target}
           # {"recipient-other-named", "recipient-other-aggregated"}

\* a graph with edges out of the ministry, project-budget and
\* project-spending layers, and with both the reserved-name node and the
\* leftover-recipients node present
C25_Witness ==
  /\ Computed
  /\ \A k \in 1..3 : \E i \in 1..Len(Graph.links) : Layer(Graph.links[i].source) = k
  /\ HasNode(Graph, "recipient-other-named")
  /\ HasNode(Graph, "recipient-other-aggregated")

\* the place of a node within its layer: the leftover-ministries node after
\* the kept ministries; kept recipients, then the reserved-name node, then
\* the leftover-recipients node
RankInLayer(id) ==
  IF id = "ministry-budget-other" THEN 1
  ELSE IF id = "recipient-other-named" THEN 1
  ELSE IF id = "recipient-other-aggregated" THEN 2
  ELSE IF id = "recipient-no-spending" THEN 3
  ELSE 0

\* C26: in Global, Ministry and Project modes the emitted node list is
\* ordered by layer: root, ministry nodes with the leftover-ministries node
\* last, project-budget nodes, project-spending nodes, then recipient nodes
\* in the order kept recipients, reserved-name node, leftover-recipients node
C26_NodesOrderedByLayer ==
  StandardComputed =>
    \A i, j \in 1..Len(Graph.nodes) :
      i < j =>
        /\ Layer(Graph.nodes[i].id) >= 0
        /\ Layer(Graph.nodes[i].id) <= Layer(Graph.nodes[j].id)
        /\ Layer(Graph.nodes[i].id) = Layer(Graph.nodes[j].id)
             => RankInLayer(Graph.nodes[i].id) <= RankInLayer(Graph.nodes[j].id)

\* a Global graph with the root, kept ministries and the leftover-ministries
\* node, nodes of both project layers, a kept recipient and the
\* leftover-recipients node
C26_Witness ==
  /\ StandardComputed
  /\ HasNode(Graph, "total-budget")
  /\ HasNode(Graph, "ministry-budget-other")
  /\ HasNode(Graph, "recipient-other-aggregated")
  /\ \A k \in 1..4 :
       \E i \in 1..Len(Graph.nodes) :
         Layer(Graph.nodes[i].id) = k /\ RankInLayer(Graph.nodes[i].id) = 0

\* the ids of the leftover-projects spending nodes of the standard views
LeftoverProjectsSpendingIds ==
  {Id("project-spending-other-", n) : n \in StoreMinistryIds}
    \cup {"project-spending-other-global"}

\* C27: in Global and Ministry modes, on every page, the outgoing edges of
\* each leftover-projects spending node (to kept recipients, to the
\* reserved-name node and to the leftover-recipients node) sum to the node's
\* own value, so they carry no amount of projects shown on earlier pages
C27_LeftoverProjectsFlow ==
  (Computed /\ ViewMode \in {"global", "ministry"}) =>
    \A i \in 1..Len(Graph.nodes) :
      Graph.nodes[i].id \in LeftoverProjectsSpendingIds
        => Abs(OutSum(Graph, Graph.nodes[i].id) - AsZero(Graph.nodes[i].value)) <= Yen(1)

\* C28: in every view mode no two nodes of the emitted node list have the
\* same id
C28_UniqueNodeIds ==
  Computed =>
    \A i, j \in 1..Len(Graph.nodes) :
      Graph.nodes[i].id = Graph.nodes[j].id => i = j

\* a Ministry graph in which two kept projects pay the same kept recipient
C28_Witness ==
  /\ Computed
  /\ ViewMode = "ministry"
  /\ \E i \in 1..Len(Graph.nodes) :
       /\ Graph.nodes[i].id \in {Id("recipient-", n) : n \in StoreSpendingIds}
       /\ Len(InLinks(Graph, Graph.nodes[i].id)) >= 2
       /\ \A k \in 1..Len(InLinks(Graph, Graph.nodes[i].id)) :
            InLinks(Graph, Graph.nodes[i].id)[k].source
              \in {Id("project-spending-", n) : n \in StoreProjectIds}

\* C29: in every view mode and for every parameter tuple, also when a
\* request sets more than one target name, the source and the target of
\* every emitted edge are ids of nodes of the emitted node list
C29_EdgeEndpointsEmitted ==
  Computed =>
    \A i \in 1..Len(Graph.links) :
      /\ HasNode(Graph, Graph.links[i].source)
      /\ HasNode(Graph, Graph.links[i].target)

\* C30: in Recipient-focused mode the value of the recipient root node
\* equals the sum of the values of the emitted edges that target it (from
\* kept projects, from the leftover projects of kept ministries and from
\* the leftover ministries)
C30_RecipientRootValue ==
  (Computed /\ ViewMode = "spending" /\ HasNode(Graph, "recipient-root")) =>
    NodeValue(Graph, "recipient-root")
      = SumSeq(MapSeq(InLinks(Graph, "recipient-root"), LAMBDA l : l.value))
====
